---------------------------- MODULE Spec2Model ----------------------------
(***************************************************************************)
(* Remote-terminal gateway (workspace/app.js) with its MySQL file store    *)
(* (src/db/mysql.js).                                                      *)
(*                                                                         *)
(* JavaScript strings are modelled as tuples of one-character strings, so  *)
(* that startsWith / includes / split / path.resolve are computed on the   *)
(* characters, as the code does.  Buffers are tuples of byte values.       *)
(***************************************************************************)
EXTENDS Integers, Sequences, FiniteSets, TLC

VARIABLES pj, cmd, db, schemaPc, calls, last, hist, lite,
          proc, workspaceDir, conns, sessions, objs, ptys, tasks, inbox, sent, disk

(***************************************************************************)
(* JavaScript values: null and truthiness                                  *)
(***************************************************************************)
\* a JS value that is either null or a string
Null == [some |-> FALSE, v |-> <<>>]
Some(s) == [some |-> TRUE, v |-> s]
\* `if (x)` on a string-or-null: null and '' are both falsy
Truthy(x) == x.some /\ x.v # <<>>

(***************************************************************************)
(* String primitives                                                       *)
(***************************************************************************)
StartsWith(s, p) == Len(p) <= Len(s) /\ SubSeq(s, 1, Len(p)) = p
EndsWith(s, p) == Len(p) <= Len(s) /\ SubSeq(s, Len(s) - Len(p) + 1, Len(s)) = p
Includes(s, sub) == \E i \in 0..(Len(s) - Len(sub)) : SubSeq(s, i + 1, i + Len(sub)) = sub

UpperCase == <<"A","B","C","D","E","F","G","H","I","J","K","L","M","N","O","P","Q","R","S","T","U","V","W","X","Y","Z">>
LowerCase == <<"a","b","c","d","e","f","g","h","i","j","k","l","m","n","o","p","q","r","s","t","u","v","w","x","y","z">>
ToLowerCase(s) ==
    [i \in 1..Len(s) |->
        IF \E k \in 1..26 : UpperCase[k] = s[i]
        THEN LowerCase[CHOOSE k \in 1..26 : UpperCase[k] = s[i]]
        ELSE s[i]]

IsSpace(c) == c \in {" ", "\t", "\n", "\r"}
RECURSIVE TrimStart(_)
TrimStart(s) == IF s # <<>> /\ IsSpace(Head(s)) THEN TrimStart(Tail(s)) ELSE s
RECURSIVE TrimEnd(_)
TrimEnd(s) == IF s # <<>> /\ IsSpace(s[Len(s)]) THEN TrimEnd(SubSeq(s, 1, Len(s) - 1)) ELSE s
Trim(s) == TrimEnd(TrimStart(s))

\* s.split(sep) for a one-character separator: empty pieces are kept
RECURSIVE SplitAcc(_, _, _)
SplitAcc(s, sep, cur) ==
    IF s = <<>> THEN <<cur>>
    ELSE IF Head(s) = sep THEN <<cur>> \o SplitAcc(Tail(s), sep, <<>>)
    ELSE SplitAcc(Tail(s), sep, Append(cur, Head(s)))
Split(s, sep) == SplitAcc(s, sep, <<>>)

\* s.split(/\s+/): a run of white space is one separator
RECURSIVE SplitWsAcc(_, _)
SplitWsAcc(s, cur) ==
    IF s = <<>> THEN <<cur>>
    ELSE IF IsSpace(Head(s)) THEN <<cur>> \o SplitWsAcc(TrimStart(s), <<>>)
    ELSE SplitWsAcc(Tail(s), Append(cur, Head(s)))
SplitWs(s) == SplitWsAcc(s, <<>>)

RECURSIVE Join(_, _)
Join(parts, sep) ==
    IF parts = <<>> THEN <<>>
    ELSE IF Len(parts) = 1 THEN parts[1]
    ELSE parts[1] \o sep \o Join(Tail(parts), sep)

(***************************************************************************)
(* Node's posix path module, as the code calls it                          *)
(***************************************************************************)
Slash == <<"/">>
DotDot == <<".", ".">>
Dot == <<".">>
\* process.cwd(): the image's WORKDIR
ProcessCwd == <<"/", "a", "p", "p">>

IsAbsolute(p) == p # <<>> /\ p[1] = "/"

\* normalizeString: drop '' and '.', let '..' pop a segment; above the root
\* '..' is dropped for an absolute path and kept for a relative one
RECURSIVE NormalizeSegs(_, _, _)
NormalizeSegs(segs, abs, acc) ==
    IF segs = <<>> THEN acc
    ELSE LET h == Head(segs) t == Tail(segs) IN
         IF h = <<>> \/ h = Dot THEN NormalizeSegs(t, abs, acc)
         ELSE IF h = DotDot
              THEN IF acc # <<>> /\ acc[Len(acc)] # DotDot
                   THEN NormalizeSegs(t, abs, SubSeq(acc, 1, Len(acc) - 1))
                   ELSE IF abs THEN NormalizeSegs(t, abs, acc)
                        ELSE NormalizeSegs(t, abs, Append(acc, h))
              ELSE NormalizeSegs(t, abs, Append(acc, h))

\* segments of the absolute path path.resolve(base, p) denotes
ResolveSegs(base, p) ==
    IF IsAbsolute(p) THEN NormalizeSegs(Split(p, "/"), TRUE, <<>>)
    ELSE IF IsAbsolute(base) THEN NormalizeSegs(Split(base, "/") \o Split(p, "/"), TRUE, <<>>)
    ELSE NormalizeSegs(Split(ProcessCwd, "/") \o Split(base, "/") \o Split(p, "/"), TRUE, <<>>)
PathResolve(base, p) == Slash \o Join(ResolveSegs(base, p), Slash)

\* path.join(a, b): join with '/', then normalize; '.' when nothing is left
PathJoin(a, b) ==
    LET raw == IF a = <<>> THEN b ELSE IF b = <<>> THEN a ELSE a \o Slash \o b
        segs == NormalizeSegs(Split(raw, "/"), IsAbsolute(raw), <<>>)
    IN IF IsAbsolute(raw) THEN Slash \o Join(segs, Slash)
       ELSE IF segs = <<>> THEN Dot ELSE Join(segs, Slash)

\* path.relative(from, to): both are resolved first
RECURSIVE CommonLen(_, _)
CommonLen(a, b) ==
    IF a # <<>> /\ b # <<>> /\ Head(a) = Head(b) THEN 1 + CommonLen(Tail(a), Tail(b)) ELSE 0
PathRelative(from, to) ==
    LET f == ResolveSegs(<<>>, from)
        t == ResolveSegs(<<>>, to)
        n == CommonLen(f, t)
    IN Join([i \in 1..(Len(f) - n) |-> DotDot] \o SubSeq(t, n + 1, Len(t)), Slash)

\* path.dirname(p) of a relative file name
PathDirname(p) ==
    LET segs == Split(p, "/") IN
    IF Len(segs) <= 1 THEN Dot
    ELSE IF Len(segs) = 2 /\ segs[1] = <<>> THEN Slash
    ELSE Join(SubSeq(segs, 1, Len(segs) - 1), Slash)

(***************************************************************************)
(* Workspace roots                                                         *)
(***************************************************************************)
\* WORKSPACE_DIR: the default of env.js, or an absolute directory set in the
\* environment
DefaultWorkspaceDir == <<".", "/", "w", "o", "r", "k", "s", "p", "a", "c", "e">>
AbsWorkspaceDir == <<"/", "w">>
WorkspaceDirs == {DefaultWorkspaceDir, AbsWorkspaceDir}
SessionsDirName == <<"s", "e", "s", "s", "i", "o", "n", "s">>
\* path.join(WORKSPACE_DIR, 'sessions', sessionId)
SessionWorkspaceDir(wd, sessionId) == PathJoin(PathJoin(wd, SessionsDirName), sessionId)

(***************************************************************************)
(* Path Jail                                                               *)
(***************************************************************************)
\* analyzeCommandRequirements.resolvePath
resolvePath(sessionWorkspaceDir, currentCwdAbs, argPath) ==
    IF argPath = <<>> THEN Null
    ELSE LET abs == IF IsAbsolute(argPath) THEN argPath ELSE PathResolve(currentCwdAbs, argPath) IN
         IF ~StartsWith(abs, sessionWorkspaceDir) THEN Null
         ELSE Some(PathRelative(sessionWorkspaceDir, abs))

\* handleInput.toRel
toRel(sessionWorkspaceDir, currentCwd, p) ==
    LET resolved == IF IsAbsolute(p) THEN p
                    ELSE PathResolve(IF currentCwd # <<>> THEN currentCwd ELSE sessionWorkspaceDir, p)
    IN IF StartsWith(resolved, sessionWorkspaceDir)
       THEN Some(PathRelative(sessionWorkspaceDir, resolved))
       ELSE Null


(***************************************************************************)
(* Buffers and UTF-8: Buffer.from(string) encodes, buffer.toString()       *)
(* decodes and replaces every ill-formed sequence by U+FFFD                *)
(***************************************************************************)
ReplacementChar == 65533
IsCont(b) == b >= 128 /\ b <= 191
Utf8EncodeCp(c) ==
    IF c < 128 THEN <<c>>
    ELSE IF c < 2048 THEN <<192 + (c \div 64), 128 + (c % 64)>>
    ELSE IF c >= 55296 /\ c <= 57343 THEN <<239, 191, 189>>
    ELSE IF c < 65536 THEN <<224 + (c \div 4096), 128 + ((c \div 64) % 64), 128 + (c % 64)>>
    ELSE <<240 + (c \div 262144), 128 + ((c \div 4096) % 64), 128 + ((c \div 64) % 64), 128 + (c % 64)>>
RECURSIVE Utf8Encode(_)
Utf8Encode(str) == IF str = <<>> THEN <<>> ELSE Utf8EncodeCp(Head(str)) \o Utf8Encode(Tail(str))

\* the bounds of the second byte after lead byte b
SecondLo(b) == IF b = 224 THEN 160 ELSE IF b = 240 THEN 144 ELSE 128
SecondHi(b) == IF b = 237 THEN 159 ELSE IF b = 244 THEN 143 ELSE 191
RECURSIVE Utf8Decode(_)
Utf8Decode(bytes) ==
    IF bytes = <<>> THEN <<>>
    ELSE LET b == bytes[1]
             n == Len(bytes)
             need == IF b >= 194 /\ b <= 223 THEN 1
                     ELSE IF b >= 224 /\ b <= 239 THEN 2
                     ELSE IF b >= 240 /\ b <= 244 THEN 3 ELSE 0
             ok2 == n >= 2 /\ bytes[2] >= SecondLo(b) /\ bytes[2] <= SecondHi(b)
             ok3 == ok2 /\ n >= 3 /\ IsCont(bytes[3])
             ok4 == ok3 /\ n >= 4 /\ IsCont(bytes[4])
         IN IF b < 128 THEN <<b>> \o Utf8Decode(Tail(bytes))
            ELSE IF need = 0 \/ ~ok2 THEN <<ReplacementChar>> \o Utf8Decode(Tail(bytes))
            ELSE IF need = 1
                 THEN <<(b - 192) * 64 + (bytes[2] - 128)>> \o Utf8Decode(SubSeq(bytes, 3, n))
            ELSE IF ~ok3 THEN <<ReplacementChar>> \o Utf8Decode(SubSeq(bytes, 3, n))
            ELSE IF need = 2
                 THEN <<(b - 224) * 4096 + (bytes[2] - 128) * 64 + (bytes[3] - 128)>>
                      \o Utf8Decode(SubSeq(bytes, 4, n))
            ELSE IF ~ok4 THEN <<ReplacementChar>> \o Utf8Decode(SubSeq(bytes, 4, n))
            ELSE <<(b - 240) * 262144 + (bytes[2] - 128) * 4096 + (bytes[3] - 128) * 64 + (bytes[4] - 128)>>
                 \o Utf8Decode(SubSeq(bytes, 5, n))

\* the `content` argument of saveFile is a string or a Buffer
StringContent(cps) == [kind |-> "string", data |-> cps]
BufferContent(bytes) == [kind |-> "buffer", data |-> bytes]
BufferFrom(content) == IF content.kind = "string" THEN Utf8Encode(content.data) ELSE content.data

(***************************************************************************)
(* File Store: the MySQL tables and the statements mysql.js runs           *)
(***************************************************************************)
\* db.sessions: session_id of the rows of `sessions`; db.filesExists: whether
\* the `files` table exists; db.files: its rows
FileRow(sid, fn, bytes) == [session_id |-> sid, filename |-> fn, content |-> bytes]
MatchingRows(d, sid, fn) == {r \in d.files : r.session_id = sid /\ r.filename = fn}

\* UPDATE files SET content = ? WHERE session_id = ? AND filename = ?
DbUpdate(d, sid, fn, bytes) ==
    [d EXCEPT !.files = (d.files \ MatchingRows(d, sid, fn))
                        \cup {FileRow(sid, fn, bytes) : r \in MatchingRows(d, sid, fn)}]
\* INSERT INTO files ...: the foreign key and UNIQUE KEY unique_session_filename
DbInsertError(d, sid, fn) ==
    IF ~d.filesExists THEN "ER_NO_SUCH_TABLE"
    ELSE IF sid \notin d.sessions THEN "ER_NO_REFERENCED_ROW"
    ELSE IF MatchingRows(d, sid, fn) # {} THEN "ER_DUP_ENTRY"
    ELSE "none"
DbInsert(d, sid, fn, bytes) == [d EXCEPT !.files = d.files \cup {FileRow(sid, fn, bytes)}]
\* DELETE FROM files WHERE session_id = ? AND filename = ? LIMIT 1
DbDeleteFile(d, sid, fn) == [d EXCEPT !.files = d.files \ MatchingRows(d, sid, fn)]

\* readFileByName: null when no row matches, else the content decoded as UTF-8
readFileByName(d, sid, fn) ==
    IF MatchingRows(d, sid, fn) # {}
    THEN Some(Utf8Decode((CHOOSE r \in MatchingRows(d, sid, fn) : TRUE).content))
    ELSE Null

\* listFilesBySession: the file names, ORDER BY filename is not relied upon
listFilesBySession(d, sid) == {r.filename : r \in {x \in d.files : x.session_id = sid}}

\* deleteSession: the files of the session, then its row
DbDeleteSession(d, sid) ==
    [d EXCEPT !.files = {r \in d.files : r.session_id # sid}, !.sessions = d.sessions \ {sid}]


(***************************************************************************)
(* Variable groups                                                         *)
(***************************************************************************)
pathVars == <<pj, cmd>>
storeVars == <<db, schemaPc, calls, last, hist, lite>>
gatewayVars == <<proc, workspaceDir, conns, sessions, objs, ptys, tasks, inbox, sent, disk>>
vars == <<pj, cmd, db, schemaPc, calls, last, hist, lite,
          proc, workspaceDir, conns, sessions, objs, ptys, tasks, inbox, sent, disk>>

(***************************************************************************)
(* Path Jail harness: the resolution applied to bounded inputs             *)
(***************************************************************************)
MaxPathSegs == 2
JailSession == <<"s", "1">>
PathSegNames == {DotDot, <<"d">>, <<"f">>, <<"s", "1", "x">>, <<"s", "2">>}
SegLists == UNION {[1..n -> PathSegNames] : n \in 1..MaxPathSegs}
RelativeCandidates == {Join(q, Slash) : q \in SegLists}
Candidates(root) ==
    RelativeCandidates
    \cup {root \o Slash \o r : r \in RelativeCandidates}
    \cup {Slash \o r : r \in RelativeCandidates}
JailRoots == {SessionWorkspaceDir(wd, JailSession) : wd \in WorkspaceDirs}
\* the tracked cwd is the root, or a directory below it that a tracked cd reached
JailCwds(root) == {root} \cup (IF IsAbsolute(root) THEN {root \o <<"/", "d">>} ELSE {})
PathOff == [root |-> <<>>, cwd |-> <<>>, cand |-> <<>>, op |-> "off", result |-> Null]
\* the command-analysis harness not in use
CmdOff == [op |-> "off", line |-> <<>>, files |-> {}, root |-> <<>>, cwd |-> <<>>,
           result |-> [action |-> "none", newCwd |-> <<>>, message |-> ""]]

ApplyResolvePath ==
    /\ pj.op = "input"
    /\ pj' = [pj EXCEPT !.op = "resolvePath", !.result = resolvePath(pj.root, pj.cwd, pj.cand)]
    /\ UNCHANGED <<cmd, storeVars, gatewayVars>>

ApplyToRel ==
    /\ pj.op = "input"
    /\ pj' = [pj EXCEPT !.op = "toRel", !.result = toRel(pj.root, pj.cwd, pj.cand)]
    /\ UNCHANGED <<cmd, storeVars, gatewayVars>>

(***************************************************************************)
(* File Store harness: concurrent callers of mysql.js, initSchema running  *)
(* beside them (app.js does not await it), and restarts of the process     *)
(***************************************************************************)
MaxCallers == 2
Callers == 1..MaxCallers
StoreSession == <<"s", "1">>
StoreFile == <<"a", "/", "b", ".", "t", "x", "t">>
\* '', 'A', 'e-acute' as strings, and the one-byte buffer ff
SaveContents == {StringContent(<<>>), StringContent(<<65>>), StringContent(<<233>>), BufferContent(<<255>>)}
IdleCall == [pc |-> "idle", content |-> StringContent(<<>>), ready |-> FALSE]
NoLast == [op |-> "none", err |-> "none", val |-> Null, ready |-> FALSE]
\* history: the content of the save on (StoreSession, StoreFile) that completed
\* last with no delete after it, and whether the table was dropped since
NoHist == [some |-> FALSE, content |-> StringContent(<<>>), dropped |-> FALSE]

\* the SQLite store of sqlite.js is not in use
LiteOff == [users |-> {}, sessions |-> {}, tx |-> FALSE, undo |-> <<>>, seq |-> 0,
            calls |-> <<>>, returned |-> {}, deleted |-> {}, last |-> <<>>]

StoreReady ==
    /\ db = [sessions |-> {StoreSession}, filesExists |-> TRUE, files |-> {}]
    /\ schemaPc = "done"
    /\ calls = [k \in Callers |-> IdleCall]
    /\ last = NoLast
    /\ hist = NoHist
    /\ lite = LiteOff

\* saveFile up to its first statement
SaveBegin(k, c) ==
    /\ calls[k].pc = "idle"
    /\ calls' = [calls EXCEPT ![k] = [pc |-> "update", content |-> c, ready |-> schemaPc = "done"]]
    /\ UNCHANGED <<db, schemaPc, last, hist, pathVars, lite, gatewayVars>>

SaveDone(k, err) ==
    /\ calls' = [calls EXCEPT ![k] = IdleCall]
    /\ last' = [op |-> "save", err |-> err, val |-> Null, ready |-> calls[k].ready]
    /\ hist' = IF err = "none"
               THEN [some |-> TRUE, content |-> calls[k].content, dropped |-> FALSE]
               ELSE hist

\* the UPDATE of saveFile; affectedRows > 0 ends the call
SaveUpdate(k) ==
    /\ calls[k].pc = "update"
    /\ IF ~db.filesExists
       THEN SaveDone(k, "ER_NO_SUCH_TABLE") /\ UNCHANGED db
       ELSE IF MatchingRows(db, StoreSession, StoreFile) # {}
            THEN /\ db' = DbUpdate(db, StoreSession, StoreFile, BufferFrom(calls[k].content))
                 /\ SaveDone(k, "none")
            ELSE /\ calls' = [calls EXCEPT ![k].pc = "insert"]
                 /\ UNCHANGED <<db, last, hist>>
    /\ UNCHANGED <<schemaPc, pathVars, lite, gatewayVars>>

\* the INSERT of saveFile, after an UPDATE that matched no row
SaveInsert(k) ==
    /\ calls[k].pc = "insert"
    /\ LET err == DbInsertError(db, StoreSession, StoreFile) IN
       /\ db' = IF err = "none"
                THEN DbInsert(db, StoreSession, StoreFile, BufferFrom(calls[k].content))
                ELSE db
       /\ SaveDone(k, err)
    /\ UNCHANGED <<schemaPc, pathVars, lite, gatewayVars>>

ReadFile ==
    /\ last' = IF db.filesExists
               THEN [op |-> "read", err |-> "none", val |-> readFileByName(db, StoreSession, StoreFile), ready |-> schemaPc = "done"]
               ELSE [op |-> "read", err |-> "ER_NO_SUCH_TABLE", val |-> Null, ready |-> schemaPc = "done"]
    /\ UNCHANGED <<db, schemaPc, calls, hist, pathVars, lite, gatewayVars>>

DeleteFile ==
    /\ db.filesExists
    /\ db' = DbDeleteFile(db, StoreSession, StoreFile)
    /\ last' = [op |-> "delete", err |-> "none", val |-> Null, ready |-> schemaPc = "done"]
    /\ hist' = NoHist
    /\ UNCHANGED <<schemaPc, calls, pathVars, lite, gatewayVars>>

\* initSchema: CREATE TABLE IF NOT EXISTS users, sessions
SchemaCreateTables ==
    /\ schemaPc = "tables"
    /\ schemaPc' = "drop"
    /\ UNCHANGED <<db, calls, last, hist, pathVars, lite, gatewayVars>>
\* initSchema: DROP TABLE IF EXISTS files
SchemaDropFiles ==
    /\ schemaPc = "drop"
    /\ schemaPc' = "create"
    /\ db' = [db EXCEPT !.filesExists = FALSE, !.files = {}]
    /\ last' = NoLast
    /\ hist' = [hist EXCEPT !.dropped = TRUE]
    /\ UNCHANGED <<calls, pathVars, lite, gatewayVars>>
\* initSchema: CREATE TABLE files
SchemaCreateFiles ==
    /\ schemaPc = "create"
    /\ schemaPc' = "cleanup"
    /\ db' = [db EXCEPT !.filesExists = TRUE, !.files = {}]
    /\ UNCHANGED <<calls, last, hist, pathVars, lite, gatewayVars>>
\* initSchema: cleanupDuplicateFiles, which finds none under the unique key
SchemaCleanup ==
    /\ schemaPc = "cleanup"
    /\ schemaPc' = "done"
    /\ UNCHANGED <<db, calls, last, hist, pathVars, lite, gatewayVars>>

\* the server process stops and is started again: the calls in flight are gone
\* and app.js calls initSchema() without awaiting it
Restart ==
    /\ schemaPc' = "tables"
    /\ calls' = [k \in Callers |-> IdleCall]
    /\ last' = NoLast
    /\ UNCHANGED <<db, hist, pathVars, lite, gatewayVars>>

(***************************************************************************)
(* Command analysis (analyzeAndExecuteCommand and what it calls)           *)
(***************************************************************************)
\* an analysis outcome; newCwd is only meaningful for redirect, message for
\* block and redirect
Execute == [action |-> "execute", newCwd |-> <<>>, message |-> ""]
\* a block that lets the command through
BlockAsExecute(message) == [action |-> "execute", newCwd |-> <<>>, message |-> ""]
Block(message) == [action |-> "block", newCwd |-> <<>>, message |-> message]
Redirect(dir) ==
    [action |-> "redirect", newCwd |-> dir,
     message |-> "package.json not found in current directory. Switching to where package.json exists."]

\* the same test without the lower-casing
isDangerousCaseSensitive(input) == Includes(Trim(input), <<"c", "d", " ", "/", "a", "p", "p">>)
\* handleInput: input.toLowerCase().trim().includes('cd /app')
isDangerous(input) == Includes(Trim(ToLowerCase(input)), <<"c", "d", " ", "/", "a", "p", "p">>)

simpleCommands ==
    {
     <<"l", "s">>, <<"d", "i", "r">>, <<"p", "w", "d">>, <<"c", "d">>,
     <<"m", "k", "d", "i", "r">>, <<"r", "m", "d", "i", "r">>, <<"r", "m">>, <<"c", "p">>,
     <<"m", "v">>, <<"c", "a", "t">>, <<"e", "c", "h", "o">>, <<"c", "l", "e", "a", "r">>,
     <<"w", "h", "o", "a", "m", "i">>, <<"d", "a", "t", "e">>, <<"t", "i", "m", "e">>, <<"p", "s">>,
     <<"t", "o", "p">>, <<"k", "i", "l", "l">>, <<"k", "i", "l", "l", "a", "l", "l">>, <<"j", "o", "b", "s">>,
     <<"b", "g">>, <<"f", "g">>, <<"h", "i", "s", "t", "o", "r", "y">>, <<"a", "l", "i", "a", "s">>,
     <<"w", "h", "i", "c", "h">>, <<"w", "h", "e", "r", "e">>, <<"t", "y", "p", "e">>, <<"h", "e", "l", "p">>,
     <<"m", "a", "n">>, <<"i", "n", "f", "o">>, <<"a", "p", "r", "o", "p", "o", "s">>, <<"w", "h", "a", "t", "i", "s">>,
     <<"l", "o", "c", "a", "t", "e">>, <<"f", "i", "n", "d">>, <<"g", "r", "e", "p">>, <<"a", "w", "k">>,
     <<"s", "e", "d">>, <<"s", "o", "r", "t">>, <<"u", "n", "i", "q">>, <<"w", "c">>,
     <<"h", "e", "a", "d">>, <<"t", "a", "i", "l">>, <<"l", "e", "s", "s">>, <<"m", "o", "r", "e">>,
     <<"t", "o", "u", "c", "h">>, <<"c", "h", "m", "o", "d">>, <<"c", "h", "o", "w", "n">>, <<"l", "n">>,
     <<"d", "f">>, <<"d", "u">>, <<"f", "r", "e", "e">>, <<"u", "p", "t", "i", "m", "e">>,
     <<"u", "n", "a", "m", "e">>, <<"e", "n", "v">>, <<"e", "x", "p", "o", "r", "t">>, <<"s", "e", "t">>,
     <<"u", "n", "s", "e", "t">>, <<"s", "o", "u", "r", "c", "e">>, <<".">>, <<"e", "x", "i", "t">>,
     <<"l", "o", "g", "o", "u", "t">>, <<"s", "u">>, <<"s", "u", "d", "o">>, <<"p", "a", "s", "s", "w", "d">>,
     <<"i", "d">>, <<"g", "r", "o", "u", "p", "s">>, <<"w">>, <<"w", "h", "o">>,
     <<"l", "a", "s", "t">>, <<"f", "i", "n", "g", "e", "r">>, <<"p", "i", "n", "g">>, <<"t", "r", "a", "c", "e", "r", "o", "u", "t", "e">>,
     <<"n", "e", "t", "s", "t", "a", "t">>, <<"s", "s">>, <<"l", "s", "o", "f">>, <<"c", "u", "r", "l">>,
     <<"w", "g", "e", "t">>, <<"s", "s", "h">>, <<"s", "c", "p">>, <<"r", "s", "y", "n", "c">>,
     <<"t", "a", "r">>, <<"z", "i", "p">>, <<"u", "n", "z", "i", "p">>, <<"g", "z", "i", "p">>,
     <<"g", "u", "n", "z", "i", "p">>, <<"b", "z", "i", "p", "2">>, <<"x", "z">>, <<"7", "z">>,
     <<"r", "a", "r">>, <<"u", "n", "r", "a", "r">>, <<"m", "o", "u", "n", "t">>, <<"u", "m", "o", "u", "n", "t">>,
     <<"f", "d", "i", "s", "k">>, <<"p", "a", "r", "t", "e", "d">>, <<"m", "k", "f", "s">>, <<"f", "s", "c", "k">>
    }

projectIndicators ==
    {
     <<"p", "a", "c", "k", "a", "g", "e", ".", "j", "s", "o", "n">>, <<"p", "a", "c", "k", "a", "g", "e", "-", "l", "o", "c", "k", ".", "j", "s", "o", "n">>, <<"y", "a", "r", "n", ".", "l", "o", "c", "k">>,
     <<"p", "n", "p", "m", "-", "l", "o", "c", "k", ".", "y", "a", "m", "l">>, <<"r", "e", "q", "u", "i", "r", "e", "m", "e", "n", "t", "s", ".", "t", "x", "t">>, <<"P", "i", "p", "f", "i", "l", "e">>,
     <<"p", "y", "p", "r", "o", "j", "e", "c", "t", ".", "t", "o", "m", "l">>, <<"C", "a", "r", "g", "o", ".", "t", "o", "m", "l">>, <<"g", "o", ".", "m", "o", "d">>,
     <<"p", "o", "m", ".", "x", "m", "l">>, <<"b", "u", "i", "l", "d", ".", "g", "r", "a", "d", "l", "e">>, <<".", "g", "i", "t">>,
     <<"R", "E", "A", "D", "M", "E", ".", "m", "d">>, <<"M", "a", "k", "e", "f", "i", "l", "e">>
    }

noPackageJsonCommands ==
    {
     <<"-", "-", "v", "e", "r", "s", "i", "o", "n">>, <<"-", "v">>, <<"v", "e", "r", "s", "i", "o", "n">>, <<"-", "-", "h", "e", "l", "p">>,
     <<"-", "h">>, <<"h", "e", "l", "p">>, <<"c", "o", "n", "f", "i", "g">>, <<"c", "a", "c", "h", "e">>,
     <<"d", "o", "c", "t", "o", "r">>, <<"p", "i", "n", "g">>, <<"w", "h", "o", "a", "m", "i">>, <<"l", "o", "g", "o", "u", "t">>,
     <<"l", "o", "g", "i", "n">>, <<"s", "e", "a", "r", "c", "h">>, <<"v", "i", "e", "w">>, <<"i", "n", "f", "o">>,
     <<"s", "h", "o", "w">>, <<"o", "u", "t", "d", "a", "t", "e", "d">>, <<"a", "u", "d", "i", "t">>, <<"f", "u", "n", "d">>
    }

installCommands == {<<"i", "n", "s", "t", "a", "l", "l">>, <<"i">>, <<"a", "d", "d">>, <<"r", "e", "m", "o", "v", "e">>, <<"u", "n", "i", "n", "s", "t", "a", "l", "l">>, <<"i", "n", "i", "t">>}
nodeManagers == {<<"n", "p", "m">>, <<"p", "n", "p", "m">>, <<"y", "a", "r", "n">>}
PackageJson == <<"p", "a", "c", "k", "a", "g", "e", ".", "j", "s", "o", "n">>

\* detectProjectRoot: the single directory that holds a project indicator,
\* or null
detectProjectRoot(fileSet) ==
    LET projectDirs ==
            {<<>> : i \in projectIndicators \cap fileSet}
            \cup ({PathDirname(fn) : fn \in {f \in fileSet :
                      \E i \in projectIndicators : EndsWith(f, Slash \o i)}} \ {Dot})
    IN IF Cardinality(projectDirs) = 1 /\ projectDirs # {<<>>}
       THEN Some(CHOOSE d \in projectDirs : TRUE)
       ELSE Null

\* fileExists(relPath): relPath && fileSet.has(relPath)
fileExists(fileSet, relPath) == Truthy(relPath) /\ relPath.v \in fileSet

analyzeNodeCommand(args, fileSet, root, cwd) ==
    LET projectRoot == detectProjectRoot(fileSet) IN
    IF Len(args) > 0 /\ args[1] \in noPackageJsonCommands THEN Execute
    ELSE IF fileExists(fileSet, resolvePath(root, cwd, PackageJson)) THEN Execute
    ELSE IF Truthy(projectRoot)
            /\ fileExists(fileSet, Some(projectRoot.v \o Slash \o PackageJson))
         THEN Redirect(projectRoot.v)
    ELSE IF Len(args) > 0 /\ args[1] \in installCommands THEN Execute
    ELSE Block("package.json not found. npm commands require a package.json file.")

analyzeGenericCommand(args, root, cwd) ==
    LET pathArgs == {i \in 1..Len(args) :
                        /\ (Includes(args[i], Slash) \/ Includes(args[i], <<"\\">>))
                        /\ ~StartsWith(args[i], <<"-">>)}
    IN IF \E i \in pathArgs : ~resolvePath(root, cwd, args[i]).some
       THEN Block("Access denied: Path is outside your workspace") ELSE Execute

CargoToml == <<"C", "a", "r", "g", "o", ".", "t", "o", "m", "l">>
analyzeCargoCommand(fileSet, root, cwd) ==
    IF fileExists(fileSet, resolvePath(root, cwd, CargoToml)) THEN Execute
    ELSE Block("Cargo.toml not found. Cargo commands require a Rust project.")

\* analyzeNodeExecution: the file check on args[0]
noFileCommands == {<<"-", "-", "v", "e", "r", "s", "i", "o", "n">>, <<"-", "v">>, <<"v", "e", "r", "s", "i", "o", "n">>, <<"-", "-", "h", "e", "l", "p">>, <<"-", "h">>, <<"h", "e", "l", "p">>,
                   <<"-", "-", "e", "v", "a", "l">>, <<"-", "e">>, <<"-", "-", "p", "r", "i", "n", "t">>, <<"-", "p">>}
analyzeNodeExecution(args, fileSet, root, cwd) ==
    IF Len(args) > 0 /\ args[1] \in noFileCommands THEN Execute
    ELSE IF Len(args) < 1 THEN Execute
    ELSE LET scriptPath == resolvePath(root, cwd, args[1]) IN
         IF Truthy(scriptPath) /\ ~fileExists(fileSet, scriptPath)
         THEN Block("File not found. Make sure the file exists in your workspace.")
         ELSE Execute

\* analyzePythonCommand: the file check on the first argument that does not
\* start with '-'
analyzePythonCommand(args, fileSet, root, cwd) ==
    LET nonFlags == {i \in 1..Len(args) : ~StartsWith(args[i], <<"-">>)} IN
    IF nonFlags = {} THEN Execute
    ELSE LET scriptArg == args[CHOOSE i \in nonFlags : \A j \in nonFlags : i <= j]
             scriptPath == resolvePath(root, cwd, scriptArg)
         IN IF Truthy(scriptPath) /\ ~fileExists(fileSet, scriptPath)
            THEN Block("Python script not found. Make sure the file exists in your workspace.")
            ELSE Execute

\* analyzeCommandRequirements: the dispatch on the executable (npm, pnpm,
\* yarn, node, python, cargo, and the generic analysis)
analyzeCommandRequirements(executable, args, fileSet, root, cwd) ==
    IF executable \in nodeManagers THEN analyzeNodeCommand(args, fileSet, root, cwd)
    ELSE IF executable = <<"n", "o", "d", "e">> THEN analyzeNodeExecution(args, fileSet, root, cwd)
    ELSE IF executable \in {<<"p", "y", "t", "h", "o", "n">>, <<"p", "y", "t", "h", "o", "n", "3">>, <<"p", "y">>}
         THEN analyzePythonCommand(args, fileSet, root, cwd)
    ELSE IF executable = <<"c", "a", "r", "g", "o">> THEN analyzeCargoCommand(fileSet, root, cwd)
    ELSE analyzeGenericCommand(args, root, cwd)

\* raw.trim().split(/\s+/), tokens[0].toLowerCase(), tokens.slice(1)
Tokens(raw) == SplitWs(Trim(raw))
Executable(raw) == ToLowerCase(Tokens(raw)[1])
Args(raw) == Tail(Tokens(raw))
\* whether analyzeAndExecuteCommand answers without awaiting any I/O
IsSimple(raw) == Executable(raw) \in simpleCommands

\* handleInput: the cwd after `cd <target>` tracking (cmd is case-sensitive)
TrackCd(root, cwd, input) ==
    LET parts == Tokens(input)
        target == Join(Tail(parts), <<" ">>)
        newCwdAbs == IF IsAbsolute(target) THEN target
                     ELSE PathResolve(IF cwd # <<>> THEN cwd ELSE root, target)
    IN IF parts[1] = <<"c", "d">> /\ Len(parts) >= 2 /\ StartsWith(newCwdAbs, root)
       THEN newCwdAbs ELSE cwd

(***************************************************************************)
(* Gateway state: connections, the session registry, session objects,      *)
(* PTY processes, handlers suspended at an await, and the workspace disk   *)
(***************************************************************************)
MaxConns == 2
MaxMsgs == 3
ConnIds == 1..MaxConns
SessionIds == {<<"s", "1">>, <<"s", "2">>}
InputLines == {<<"l", "s", "\n">>, <<"n", "p", "m", " ", "t", "e", "s", "t", "\n">>, <<"c", "d", " ", "p", "r", "o", "j", " ", "&", "&", " ", "c", "d", " ", "/", "A", "P", "P", "\n">>, <<"c", "d", " ", "p", "r", "o", "j", "\n">>}
\* the File Records the gateway starts with: one project below s1
ProjectFile == <<"p", "r", "o", "j", "/", "p", "a", "c", "k", "a", "g", "e", ".", "j", "s", "o", "n">>
GatewayFiles == {FileRow(<<"s", "1">>, ProjectFile, <<123, 125>>)}

NoConn == [state |-> "none", currentSessionId |-> <<>>]
NoTask == [kind |-> "none", id |-> 0, conn |-> 0, sid |-> <<>>, obj |-> 0, phase |-> "none",
           data |-> <<>>, cwd |-> <<>>, todo |-> {}, listed |-> {}]
\* every event sent as terminal output
EventAsOutput(type, text, n) == [type |-> "output", text |-> text, msg |-> n]
Event(type, text, n) == [type |-> type, text |-> text, msg |-> n]
PtyEntry(kind, data, c, n) == [kind |-> kind, data |-> data, conn |-> c, msg |-> n]

\* ws.send(...): nothing is delivered on a socket that is not open
Send(s, c, ev) == IF conns[c].state = "open" THEN [s EXCEPT ![c] = Append(@, ev)] ELSE s
\* ptyProcess.write(...): a killed process takes no more input
PtyWrite(ps, p, entry) ==
    IF ps[p].killed \/ ps[p].exited THEN ps ELSE [ps EXCEPT ![p].input = Append(@, entry)]
\* ptyProcess.kill()
PtyKillNot(ps, p) == ps
PtyKill(ps, p) == IF p = 0 THEN ps ELSE [ps EXCEPT ![p].killed = TRUE]

\* the workspace disk: the files below each session's workspace root
DiskFile(dk, sid, fn) == {r \in dk : r.session_id = sid /\ r.filename = fn}
\* fs.mkdirSync(dirname, recursive) and fs.writeFileSync(filePath, content)
DiskWrite(dk, sid, fn, str) == (dk \ DiskFile(dk, sid, fn)) \cup {FileRow(sid, fn, Utf8Encode(str))}
\* fs.existsSync(dir) && isDirectory(): some file lies below dir
DirOnDisk(dk, sid, dir) == \E r \in dk : r.session_id = sid /\ StartsWith(r.filename, dir \o Slash)
\* String(file.filename).split('/').filter(Boolean)
NameParts(fn) == SelectSeq(Split(fn, "/"), LAMBDA x : x # <<>>)

\* handleInit after the sync loop: the cwd of a workspace holding a single
\* project directory and no file at its root
AutoCd(root, cwd, listed, dk, sid) ==
    LET hasRootFiles == \E fn \in listed : Len(NameParts(fn)) = 1
        topLevels == {NameParts(fn)[1] : fn \in {f \in listed : Len(NameParts(f)) > 0}}
        only == CHOOSE d \in topLevels : TRUE
    IN IF ~hasRootFiles /\ Cardinality(topLevels) = 1 /\ DirOnDisk(dk, sid, only)
       THEN PathJoin(root, only) ELSE cwd

\* 'cd "' + dir + '"\n'
CdLine(dir) == <<"c", "d", " ", "\"">> \o dir \o <<"\"", "\n">>

GatewayIdle ==
    /\ proc = "running"
    /\ conns = [c \in ConnIds |-> NoConn]
    /\ sessions = [s \in SessionIds |-> 0]
    /\ objs = <<>>
    /\ ptys = <<>>
    /\ tasks = {}
    /\ inbox = <<>>
    /\ sent = [c \in ConnIds |-> <<>>]
    /\ disk = {}

\* wss.on('connection'): connections are numbered in the order they arrive
Connect(c) ==
    /\ proc = "running"
    /\ conns[c].state = "none"
    /\ IF c = 1 THEN TRUE ELSE conns[c - 1].state # "none"
    /\ conns' = [conns EXCEPT ![c].state = "open"]
    /\ UNCHANGED <<proc, workspaceDir, sessions, objs, ptys, tasks, inbox, sent, disk>>
    /\ UNCHANGED <<pathVars, storeVars>>

\* ws.on('message'): a frame arrives on a socket the server still reads
Receive(c, type, sid, data) ==
    /\ conns[c].state \in {"open", "closing"}
    /\ Len(inbox) < MaxMsgs
    /\ inbox' = Append(inbox, [conn |-> c, type |-> type, sid |-> sid, data |-> data])

\* handleInit up to its first await: a new session object replaces whatever
\* the registry held
handleInitStart(c, sid) ==
    /\ conns' = [conns EXCEPT ![c].currentSessionId = sid]
    /\ objs' = Append(objs, [sid |-> sid, ws |-> c, ptyProcess |-> 0,
                             currentCwd |-> SessionWorkspaceDir(workspaceDir, sid),
                             ptyReady |-> FALSE])
    /\ sessions' = [sessions EXCEPT ![sid] = Len(objs) + 1]
    /\ tasks' = tasks \cup {[NoTask EXCEPT !.kind = "init", !.id = Len(inbox) + 1, !.conn = c,
                                           !.sid = sid, !.obj = Len(objs) + 1, !.phase = "list"]}
    /\ UNCHANGED <<proc, workspaceDir, ptys, sent, disk>>

RecvInit(c, sid) ==
    /\ Receive(c, "init", sid, <<>>)
    /\ handleInitStart(c, sid)
    /\ UNCHANGED <<pathVars, storeVars>>

\* handleInit: await listFilesBySession(sessionId)
InitList(t) ==
    /\ t.kind = "init" /\ t.phase = "list"
    /\ LET files == listFilesBySession(db, t.sid) IN
       tasks' = (tasks \ {t}) \cup
                {[t EXCEPT !.phase = IF files = {} THEN "spawn" ELSE "files",
                           !.todo = files, !.listed = files]}
    /\ UNCHANGED <<proc, workspaceDir, conns, sessions, objs, ptys, inbox, sent, disk>>
    /\ UNCHANGED <<pathVars, storeVars>>

\* handleInit: one turn of the sync loop, await readFileByName then
\* `if (content)` write; after the last file the single-project cwd is chosen
\* and `session.ptyProcess?.write('cd "' + newCwd + '"\n')` runs
InitFile(t, fn) ==
    /\ t.kind = "init" /\ t.phase = "files" /\ fn \in t.todo
    /\ LET content == readFileByName(db, t.sid, fn)
           dk == IF Truthy(content) THEN DiskWrite(disk, t.sid, fn, content.v) ELSE disk
           root == SessionWorkspaceDir(workspaceDir, t.sid)
           newCwd == AutoCd(root, objs[t.obj].currentCwd, t.listed, dk, t.sid)
           p == objs[t.obj].ptyProcess
       IN /\ disk' = dk
          /\ IF t.todo = {fn}
             THEN /\ tasks' = (tasks \ {t}) \cup {[t EXCEPT !.phase = "spawn", !.todo = {}]}
                  /\ objs' = [objs EXCEPT ![t.obj].currentCwd = newCwd]
                  /\ ptys' = IF p # 0 /\ newCwd # objs[t.obj].currentCwd
                             THEN PtyWrite(ptys, p, PtyEntry("cd", CdLine(newCwd), t.conn, t.id))
                             ELSE ptys
             ELSE /\ tasks' = (tasks \ {t}) \cup {[t EXCEPT !.todo = @ \ {fn}]}
                  /\ objs' = objs
                  /\ ptys' = ptys
    /\ UNCHANGED <<proc, workspaceDir, conns, sessions, inbox, sent>>
    /\ UNCHANGED <<pathVars, storeVars>>

\* handleInit: readFileByName, mkdirSync or writeFileSync throws inside the
\* try that holds the whole sync loop; the catch logs, the rest of the loop
\* and the single-project detection are skipped
InitFileFail(t, fn) ==
    /\ t.kind = "init" /\ t.phase = "files" /\ fn \in t.todo
    /\ tasks' = (tasks \ {t}) \cup {[t EXCEPT !.phase = "spawn", !.todo = {}]}
    /\ UNCHANGED <<proc, workspaceDir, conns, sessions, objs, ptys, inbox, sent, disk>>
    /\ UNCHANGED <<pathVars, storeVars>>

\* handleInit: import('node-pty') or spawn throws; the catch answers with an
\* error event and the session object stays as it was registered
InitSpawnFailReady(t) ==
    /\ t.kind = "init" /\ t.phase = "spawn"
    /\ objs' = [objs EXCEPT ![t.obj].ptyReady = TRUE]
    /\ sent' = Send(sent, t.conn, Event("error", "Failed to initialize terminal", t.id))
    /\ tasks' = tasks \ {t}
    /\ UNCHANGED <<proc, workspaceDir, conns, sessions, ptys, inbox, disk>>
    /\ UNCHANGED <<pathVars, storeVars>>
InitSpawnFail(t) ==
    /\ t.kind = "init" /\ t.phase = "spawn"
    /\ sent' = Send(sent, t.conn, Event("error", "Failed to initialize terminal", t.id))
    /\ tasks' = tasks \ {t}
    /\ UNCHANGED <<proc, workspaceDir, conns, sessions, objs, ptys, inbox, disk>>
    /\ UNCHANGED <<pathVars, storeVars>>

\* handleInit: spawn, the shell set-up lines, ptyReady, the pty-ready event
InitSpawn(t) ==
    /\ t.kind = "init" /\ t.phase = "spawn"
    /\ ptys' = Append(ptys, [sid |-> t.sid, obj |-> t.obj, killed |-> FALSE, exited |-> FALSE,
                             out |-> 0, timer |-> -1, idle |-> 0, ran |-> 0,
                             input |-> <<PtyEntry("setup", <<>>, t.conn, t.id)>>])
    /\ objs' = [objs EXCEPT ![t.obj].ptyProcess = Len(ptys) + 1, ![t.obj].ptyReady = TRUE]
    /\ sent' = Send(sent, t.conn, Event("pty-ready", "Terminal ready", t.id))
    /\ tasks' = tasks \ {t}
    /\ UNCHANGED <<proc, workspaceDir, conns, sessions, inbox, disk>>
    /\ UNCHANGED <<pathVars, storeVars>>

\* handleReconnect: attach to the registered session, else handleInit
RecvReconnect(c, sid) ==
    /\ Receive(c, "reconnect", sid, <<>>)
    /\ IF sessions[sid] # 0
       THEN /\ conns' = [conns EXCEPT ![c].currentSessionId = sid]
            /\ objs' = [objs EXCEPT ![sessions[sid]].ws = c]
            /\ sent' = Send(sent, c, IF objs[sessions[sid]].ptyReady
                                     THEN Event("pty-ready", "Terminal ready", Len(inbox) + 1)
                                     ELSE Event("error", "Session not ready", Len(inbox) + 1))
            /\ UNCHANGED <<proc, workspaceDir, sessions, ptys, tasks, disk>>
       ELSE handleInitStart(c, sid)
    /\ UNCHANGED <<pathVars, storeVars>>

\* the ticks of the 30 second command timeout
TimeoutTicks == 2
\* handleInput: the delay of the timeout set for a line, 0 for none
\* (120000 ms for npm install / npm i, 30000 ms for npm, node, python)
CommandThreshold(input) ==
    IF StartsWith(Trim(input), <<"n", "p", "m", " ", "i">>) THEN 4 * TimeoutTicks
    ELSE IF \/ StartsWith(Trim(input), <<"n", "p", "m">>)
            \/ StartsWith(Trim(input), <<"n", "o", "d", "e">>)
            \/ StartsWith(Trim(input), <<"p", "y", "t", "h", "o", "n">>)
    THEN TimeoutTicks ELSE 0
\* handleInput: clearTimeout(session.commandTimeout), then setTimeout for a
\* watched line; the timer holds the ticks left, -1 when none is pending
SetCommandTimeout(ps, p, input) ==
    [ps EXCEPT ![p].timer = IF CommandThreshold(input) > 0 THEN CommandThreshold(input) ELSE -1,
               ![p].idle = 0]

\* handleInput after analyzeAndExecuteCommand has answered: the block
\* diagnostic, the redirect, the command timeout, and the write of the input
\* to the PTY
AfterAnalysis(c, n, sid, o, input, an, ob) ==
    LET root == SessionWorkspaceDir(workspaceDir, sid)
        targetAbs == PathResolve(root, an.newCwd)
        redirected == an.action = "redirect" /\ StartsWith(targetAbs, root)
        p == ob[o].ptyProcess
        cdLine == CdLine(targetAbs)
        ps == IF redirected THEN PtyWrite(ptys, p, PtyEntry("cd", cdLine, c, n)) ELSE ptys
    IN IF an.action = "block"
       THEN /\ sent' = Send(sent, c, Event("output", "[ERROR]", n))
            /\ objs' = ob
            /\ ptys' = ptys
       ELSE /\ sent' = IF redirected THEN Send(sent, c, Event("output", "[AUTO]", n)) ELSE sent
            /\ objs' = IF redirected THEN [ob EXCEPT ![o].currentCwd = targetAbs] ELSE ob
            /\ ptys' = PtyWrite(SetCommandTimeout(ps, p, input), p, PtyEntry("input", input, c, n))

\* saveFile as one step: UPDATE, and INSERT when no row matched
saveFile(d, sid, fn, bytes) ==
    IF MatchingRows(d, sid, fn) # {} THEN DbUpdate(d, sid, fn, bytes)
    ELSE IF DbInsertError(d, sid, fn) = "none" THEN DbInsert(d, sid, fn, bytes) ELSE d

\* handleInput: what a line propagates to the File Store. mkdir and rm take
\* their last word as the path, touch every word after the first; a path that
\* toRel does not place in the workspace is ignored
Propagation(root, cwd, input) ==
    LET parts == Tokens(input)
        rels(ws) == {toRel(root, cwd, ws[i]).v : i \in {k \in 1..Len(ws) : Truthy(toRel(root, cwd, ws[k]))}}
        flags == Join(SubSeq(parts, 2, Len(parts) - 1), <<" ">>)
    IN IF Len(parts) < 2 THEN [op |-> "none", rels |-> {}]
       ELSE IF parts[1] = <<"m", "k", "d", "i", "r">>
       THEN [op |-> "mkdir", rels |-> rels(<<parts[Len(parts)]>>)]
       ELSE IF parts[1] = <<"t", "o", "u", "c", "h">>
       THEN [op |-> "touch", rels |-> rels(Tail(parts))]
       ELSE IF parts[1] = <<"r", "m">>
       THEN [op |-> IF Includes(flags, <<"-", "r">>) \/ Includes(flags, <<"-", "f", "r">>)
                    THEN "rm-r" ELSE "rm",
             rels |-> rels(<<parts[Len(parts)]>>)]
       ELSE [op |-> "none", rels |-> {}]

\* the File Store after the statements a mkdir or rm line awaits
Propagated(d, sid, pr) ==
    LET rel == CHOOSE r \in pr.rels : TRUE
        folder == PathJoin(rel, <<".", "f", "o", "l", "d", "e", "r">>)
    IN IF pr.op = "mkdir" THEN saveFile(d, sid, folder, <<>>)
       ELSE IF pr.op = "rm" THEN DbDeleteFile(d, sid, rel)
       ELSE DbDeleteFile([d EXCEPT !.files = {r \in d.files :
                              ~(r.session_id = sid /\ StartsWith(r.filename, rel \o Slash))}],
                         sid, folder)

\* handleInput up to its first await on I/O; a command on the simple list is
\* answered without I/O; it is written to the PTY in the same turn unless it
\* is a mkdir or rm whose File Store statements are awaited first
RecvInput(c, sid, input) ==
    LET n == Len(inbox) + 1
        o == sessions[sid]
        root == SessionWorkspaceDir(workspaceDir, sid)
    IN
    /\ Receive(c, "input", sid, input)
    /\ conns' = [conns EXCEPT ![c].currentSessionId = sid]
    /\ IF o = 0
       THEN /\ sent' = Send(sent, c, Event("error", "Session not found", n))
            /\ UNCHANGED <<objs, ptys, tasks>>
       ELSE IF ~(objs[o].ptyProcess # 0 /\ objs[o].ptyReady)
       THEN /\ sent' = Send(sent, c, Event("error", "Terminal not ready", n))
            /\ UNCHANGED <<objs, ptys, tasks>>
       ELSE IF isDangerous(input)
       THEN /\ sent' = Send(sent, c, Event("output", "[SECURITY]", n))
            /\ UNCHANGED <<objs, ptys, tasks>>
       ELSE LET cwd == TrackCd(root, objs[o].currentCwd, input)
                ob == [objs EXCEPT ![o].currentCwd = cwd]
                pr == Propagation(root, cwd, input)
            IN IF IsSimple(input) /\ pr.op \in {"mkdir", "rm", "rm-r"} /\ pr.rels # {}
               THEN /\ objs' = ob
                    /\ tasks' = tasks \cup {[NoTask EXCEPT !.kind = "input", !.id = n, !.conn = c,
                                                !.sid = sid, !.obj = o, !.phase = "propagate",
                                                !.data = input, !.cwd = cwd]}
                    /\ UNCHANGED <<ptys, sent>>
               ELSE IF IsSimple(input)
               THEN /\ AfterAnalysis(c, n, sid, o, input, Execute, ob)
                    /\ tasks' = tasks \cup
                          {[NoTask EXCEPT !.kind = "touch", !.id = n, !.sid = sid, !.data = rel] :
                              rel \in IF pr.op = "touch" THEN pr.rels ELSE {}}
               ELSE /\ objs' = ob
                    /\ tasks' = tasks \cup {[NoTask EXCEPT !.kind = "input", !.id = n, !.conn = c,
                                                !.sid = sid, !.obj = o, !.phase = "sync",
                                                !.data = input, !.cwd = cwd]}
                    /\ UNCHANGED <<ptys, sent>>
    /\ UNCHANGED <<proc, workspaceDir, sessions, disk>>
    /\ UNCHANGED <<pathVars, storeVars>>

\* handleInput: the awaited File Store statements of a mkdir or rm line
\* complete, then the line is written to the PTY
InputPropagate(t) ==
    /\ t.kind = "input" /\ t.phase = "propagate"
    /\ db' = Propagated(db, t.sid,
                 Propagation(SessionWorkspaceDir(workspaceDir, t.sid), t.cwd, t.data))
    /\ AfterAnalysis(t.conn, t.id, t.sid, t.obj, t.data, Execute, objs)
    /\ tasks' = tasks \ {t}
    /\ UNCHANGED <<proc, workspaceDir, conns, sessions, inbox, disk>>
    /\ UNCHANGED <<pathVars, lite, schemaPc, calls, last, hist>>

\* handleInput: a File Store statement of a mkdir or rm line rejects; the
\* catch logs and the line is written to the PTY
InputPropagateFail(t) ==
    /\ t.kind = "input" /\ t.phase = "propagate"
    /\ AfterAnalysis(t.conn, t.id, t.sid, t.obj, t.data, Execute, objs)
    /\ tasks' = tasks \ {t}
    /\ UNCHANGED <<proc, workspaceDir, conns, sessions, inbox, disk>>
    /\ UNCHANGED <<pathVars, storeVars>>

\* handleInput: the 300 ms timer of a touch fires: the content on disk, or ''
\* when there is no file, is saved; a rejection is swallowed
TouchTimer(t) ==
    /\ t.kind = "touch"
    /\ LET onDisk == DiskFile(disk, t.sid, t.data)
           bytes == IF onDisk = {} THEN <<>>
                    ELSE Utf8Encode(Utf8Decode((CHOOSE r \in onDisk : TRUE).content))
       IN db' = saveFile(db, t.sid, t.data, bytes)
    /\ tasks' = tasks \ {t}
    /\ UNCHANGED <<proc, workspaceDir, conns, sessions, objs, ptys, inbox, sent, disk>>
    /\ UNCHANGED <<pathVars, lite, schemaPc, calls, last, hist>>

\* POST /folders/delete: the records below folderPath and its placeholder
\* are deleted, then the folder on disk; the request is logged with the
\* frames, as connection 0
FoldersDelete(sid, folderPath) ==
    /\ proc = "running"
    /\ Len(inbox) < MaxMsgs
    /\ inbox' = Append(inbox, [conn |-> 0, type |-> "folders-delete", sid |-> sid,
                               data |-> folderPath])
    /\ db' = Propagated(db, sid, [op |-> "rm-r", rels |-> {folderPath}])
    /\ disk' = {r \in disk : ~(r.session_id = sid /\ StartsWith(r.filename, folderPath \o Slash))}
    /\ UNCHANGED <<proc, workspaceDir, conns, sessions, objs, ptys, tasks, sent>>
    /\ UNCHANGED <<pathVars, lite, schemaPc, calls, last, hist>>

\* the 10 second setInterval: the records of a registered, ready session
\* with a tracked cwd are read and, `if (content)`, written to its workspace
AutoSync(sid) ==
    /\ proc # "exited"
    /\ sessions[sid] # 0
    /\ objs[sessions[sid]].ptyReady /\ objs[sessions[sid]].currentCwd # <<>>
    /\ disk' = {r \in disk : ~(r.session_id = sid /\
                                Truthy(readFileByName(db, sid, r.filename)))}
               \cup {FileRow(sid, fn, Utf8Encode(readFileByName(db, sid, fn).v)) :
                        fn \in {f \in listFilesBySession(db, sid) :
                                   Truthy(readFileByName(db, sid, f))}}
    /\ UNCHANGED <<proc, workspaceDir, conns, sessions, objs, ptys, tasks, inbox, sent>>
    /\ UNCHANGED <<pathVars, storeVars>>

\* ensureFilesSynced: every File Record with no file on disk is read and,
\* `if (content)`, written
InputSync(t) ==
    /\ t.kind = "input" /\ t.phase = "sync"
    /\ LET missing == {fn \in listFilesBySession(db, t.sid) :
                          DiskFile(disk, t.sid, fn) = {} /\ Truthy(readFileByName(db, t.sid, fn))}
       IN disk' = disk \cup {FileRow(t.sid, fn, Utf8Encode(readFileByName(db, t.sid, fn).v)) :
                                fn \in missing}
    /\ tasks' = (tasks \ {t}) \cup {[t EXCEPT !.phase = "analyze"]}
    /\ UNCHANGED <<proc, workspaceDir, conns, sessions, objs, ptys, inbox, sent>>
    /\ UNCHANGED <<pathVars, storeVars>>

\* analyzeCommandRequirements (await listFilesBySession) and the rest of
\* handleInput
InputAnalysed(t) ==
    /\ t.kind = "input" /\ t.phase = "analyze"
    /\ AfterAnalysis(t.conn, t.id, t.sid, t.obj, t.data,
                     analyzeCommandRequirements(Executable(t.data), Args(t.data),
                         listFilesBySession(db, t.sid),
                         SessionWorkspaceDir(workspaceDir, t.sid), t.cwd),
                     objs)
    /\ tasks' = tasks \ {t}
    /\ UNCHANGED <<proc, workspaceDir, conns, sessions, inbox, disk>>
    /\ UNCHANGED <<pathVars, storeVars>>

\* the socket closes: both ws.on('close') handlers run, the first keeps
\* the session, the second kills the PTY of currentSessionId and deletes its
\* registry entry
WsClose(c) ==
    LET sid == conns[c].currentSessionId
        has == sid # <<>> /\ sessions[sid] # 0
    IN
    /\ conns[c].state \in {"open", "closing"}
    /\ conns' = [conns EXCEPT ![c].state = "closed"]
    /\ ptys' = IF has THEN PtyKill(ptys, objs[sessions[sid]].ptyProcess) ELSE ptys
    /\ sessions' = IF has THEN [sessions EXCEPT ![sid] = 0] ELSE sessions
    /\ UNCHANGED <<proc, workspaceDir, objs, tasks, inbox, sent, disk>>
    /\ UNCHANGED <<pathVars, storeVars>>

\* DELETE /sessions/:sessionId up to `await deleteSession(sessionId)`; the
\* HTTP request is logged with the frames, as connection 0
DeleteSessionRequest(sid) ==
    /\ Len(inbox) < MaxMsgs
    /\ inbox' = Append(inbox, [conn |-> 0, type |-> "delete", sid |-> sid, data |-> <<>>])
    /\ tasks' = tasks \cup {[NoTask EXCEPT !.kind = "delete", !.id = Len(inbox) + 1,
                                           !.sid = sid, !.phase = "db"]}
    /\ UNCHANGED <<proc, workspaceDir, conns, sessions, objs, ptys, sent, disk>>
    /\ UNCHANGED <<pathVars, storeVars>>

\* deleteSession commits, then the handler kills the PTY, closes the
\* attached socket and deletes the registry entry
DeleteSessionFinish(t) ==
    LET o == sessions[t.sid] IN
    /\ t.kind = "delete"
    /\ db' = DbDeleteSession(db, t.sid)
    /\ tasks' = tasks \ {t}
    /\ ptys' = IF o # 0 THEN PtyKill(ptys, objs[o].ptyProcess) ELSE ptys
    /\ conns' = IF o # 0 /\ conns[objs[o].ws].state = "open"
                THEN [conns EXCEPT ![objs[o].ws].state = "closing"] ELSE conns
    /\ sessions' = [sessions EXCEPT ![t.sid] = 0]
    /\ UNCHANGED <<proc, workspaceDir, objs, inbox, sent, disk>>
    /\ UNCHANGED <<pathVars, lite, schemaPc, calls, last, hist>>

(***************************************************************************)
(* PTY events, malformed frames and shutdown                               *)
(***************************************************************************)
MaxOut == 1

\* the socket the PTY handlers send to: session.ws of the object that
\* spawned the PTY, read when the event fires
PtyTargetAtSpawn(p) == ptys[p].input[1].conn
PtyTarget(p) == objs[ptys[p].obj].ws

\* ptyProcess.onData: a pending command timeout is cleared and the chunk of
\* output goes to session.ws if it is open
PtyData(p) ==
    /\ proc # "exited"
    /\ ~ptys[p].exited /\ ptys[p].out < MaxOut
    /\ ptys' = [ptys EXCEPT ![p].out = @ + 1, ![p].timer = -1, ![p].idle = 0]
    /\ sent' = Send(sent, PtyTarget(p), Event("output", "pty-data", p))
    /\ UNCHANGED <<proc, workspaceDir, conns, sessions, objs, tasks, inbox, disk>>
    /\ UNCHANGED <<pathVars, storeVars>>

\* ptyProcess.onExit: the shell ended (the user typed `exit`, or it was
\* killed); the exit event goes to session.ws if it is open
PtyExit(p) ==
    /\ proc # "exited"
    /\ ~ptys[p].exited
    /\ ptys' = [ptys EXCEPT ![p].exited = TRUE]
    /\ sent' = Send(sent, PtyTarget(p), Event("exit", "exitCode, signal", p))
    /\ UNCHANGED <<proc, workspaceDir, conns, sessions, objs, tasks, inbox, disk>>
    /\ UNCHANGED <<pathVars, storeVars>>

\* the setTimeout callback of handleInput fires: Ctrl+C is written to the PTY
CommandTimeout(p) ==
    /\ proc # "exited"
    /\ ptys[p].timer = 0
    /\ ptys' = PtyWrite([ptys EXCEPT ![p].timer = -1], p, PtyEntry("interrupt", <<"^C">>, 0, 0))
    /\ UNCHANGED <<proc, workspaceDir, conns, sessions, objs, tasks, inbox, sent, disk>>
    /\ UNCHANGED <<pathVars, storeVars>>

\* time passes: a timer that is due fires before the next tick; idle counts
\* the ticks since the last output or forwarded line of each PTY
Tick ==
    /\ proc # "exited"
    /\ \A p \in 1..Len(ptys) : ptys[p].timer # 0
    /\ \E p \in 1..Len(ptys) : ptys[p].timer > 0 \/ ptys[p].idle <= 4 * TimeoutTicks
    /\ ptys' = [p \in 1..Len(ptys) |->
                  [ptys[p] EXCEPT !.timer = IF @ > 0 THEN @ - 1 ELSE @,
                                  !.idle = IF @ <= 4 * TimeoutTicks THEN @ + 1 ELSE @]]
    /\ UNCHANGED <<proc, workspaceDir, conns, sessions, objs, tasks, inbox, sent, disk>>
    /\ UNCHANGED <<pathVars, storeVars>>

\* init, reconnect or input without a sessionId
RecvNoSessionId(c, type) ==
    /\ Receive(c, type, <<>>, <<>>)
    /\ sent' = Send(sent, c, Event("error", "Session ID required", Len(inbox) + 1))
    /\ UNCHANGED <<proc, workspaceDir, conns, sessions, objs, ptys, tasks, disk>>
    /\ UNCHANGED <<pathVars, storeVars>>

\* a frame that is not JSON: JSON.parse throws and the catch only logs
RecvMalformed(c) ==
    /\ Receive(c, "malformed", <<>>, <<>>)
    /\ UNCHANGED <<proc, workspaceDir, conns, sessions, objs, ptys, tasks, sent, disk>>
    /\ UNCHANGED <<pathVars, storeVars>>

\* shutdown(): the loop over sessions.entries()
RECURSIVE shutdownPtys(_, _)
shutdownPtys(ps, sids) ==
    IF sids = {} THEN ps
    ELSE LET sid == CHOOSE x \in sids : TRUE IN
         shutdownPtys(IF sessions[sid] # 0 THEN PtyKill(ps, objs[sessions[sid]].ptyProcess) ELSE ps,
                      sids \ {sid})
\* SIGTERM / SIGINT: every registered session has its PTY killed and its
\* socket closed, then wss.close() is called
Shutdown ==
    /\ proc = "running"
    /\ proc' = "wss-closing"
    /\ ptys' = shutdownPtys(ptys, SessionIds)
    /\ conns' = [c \in ConnIds |->
                    IF conns[c].state = "open"
                       /\ \E sid \in SessionIds : sessions[sid] # 0 /\ objs[sessions[sid]].ws = c
                    THEN [conns[c] EXCEPT !.state = "closing"] ELSE conns[c]]
    /\ UNCHANGED <<workspaceDir, sessions, objs, tasks, inbox, sent, disk>>
    /\ UNCHANGED <<pathVars, storeVars>>
\* the callback of wss.close(): server.close() is called
WssClosed ==
    /\ proc = "wss-closing"
    /\ proc' = "http-closing"
    /\ UNCHANGED <<workspaceDir, conns, sessions, objs, ptys, tasks, inbox, sent, disk>>
    /\ UNCHANGED <<pathVars, storeVars>>
\* the callback of server.close(), once every connection has ended:
\* process.exit(0), which drops the handlers still suspended
HttpClosed ==
    /\ proc = "http-closing"
    /\ \A c \in ConnIds : conns[c].state \in {"none", "closed"}
    /\ proc' = "exited"
    /\ tasks' = {}
    /\ UNCHANGED <<workspaceDir, conns, sessions, objs, ptys, inbox, sent, disk>>
    /\ UNCHANGED <<pathVars, storeVars>>

(***************************************************************************)
(* Command-analysis harness: analyzeCommandRequirements applied to one     *)
(* line over a bounded set of File Records                                 *)
(***************************************************************************)
AnalysisSession == <<"s", "1">>
AnalysisLines == {<<"n", "p", "m", " ", "t", "e", "s", "t", "\n">>, <<"c", "a", "r", "g", "o", " ", "b", "u", "i", "l", "d", "\n">>, <<"c", "a", "r", "g", "o", "\n">>, <<"c", "a", "r", "g", "o", " ", "-", "-", "v", "e", "r", "s", "i", "o", "n", "\n">>, <<"C", "a", "r", "g", "o", " ", "r", "u", "n", " ", "-", "-", "r", "e", "l", "e", "a", "s", "e", "\n">>}
AnalysisNames == {<<"p", "a", "c", "k", "a", "g", "e", ".", "j", "s", "o", "n">>, <<"p", "r", "o", "j", "/", "p", "a", "c", "k", "a", "g", "e", ".", "j", "s", "o", "n">>, <<"p", "r", "o", "j", "/", "s", "u", "b", "/", "p", "a", "c", "k", "a", "g", "e", ".", "j", "s", "o", "n">>,
                  <<"p", "r", "o", "j", "/", "d", "o", "c", "s", "/", "R", "E", "A", "D", "M", "E", ".", "m", "d">>, <<"C", "a", "r", "g", "o", ".", "t", "o", "m", "l">>, <<"p", "r", "o", "j", "/", "C", "a", "r", "g", "o", ".", "t", "o", "m", "l">>}
ProjDir == <<"p", "r", "o", "j">>
AnalysisRoots == {SessionWorkspaceDir(wd, AnalysisSession) : wd \in WorkspaceDirs}
\* the tracked cwd: the workspace root, or proj below it
AnalysisCwds(root) == {root, PathJoin(root, ProjDir)}

ApplyAnalysis ==
    /\ cmd.op = "line"
    /\ cmd' = [cmd EXCEPT !.op = "analysed",
                          !.result = analyzeCommandRequirements(Executable(cmd.line),
                                         Args(cmd.line), cmd.files, cmd.root, cmd.cwd)]
    /\ UNCHANGED <<pj, storeVars, gatewayVars>>

(***************************************************************************)
(* Specifications                                                          *)
(***************************************************************************)
InitPath ==
    /\ \E r \in JailRoots : \E c \in JailCwds(r) : \E p \in Candidates(r) :
          pj = [root |-> r, cwd |-> c, cand |-> p, op |-> "input", result |-> Null]
    /\ cmd = CmdOff
    /\ StoreReady
    /\ workspaceDir = DefaultWorkspaceDir /\ GatewayIdle
NextPath == ApplyResolvePath \/ ApplyToRel
SpecPath == InitPath /\ [][NextPath]_vars

InitStore == pj = PathOff /\ cmd = CmdOff /\ StoreReady /\ workspaceDir = DefaultWorkspaceDir /\ GatewayIdle
NextStore ==
    \/ \E k \in Callers : \E c \in SaveContents : SaveBegin(k, c)
    \/ \E k \in Callers : SaveUpdate(k)
    \/ \E k \in Callers : SaveInsert(k)
    \/ ReadFile
    \/ DeleteFile
    \/ SchemaCreateTables
    \/ SchemaDropFiles
    \/ SchemaCreateFiles
    \/ SchemaCleanup
    \/ Restart
SpecStore == InitStore /\ [][NextStore]_vars

\* the gateway after start-up: no connection, an empty registry, the File
\* Store holding GatewayFiles
Init ==
    /\ workspaceDir \in WorkspaceDirs
    /\ GatewayIdle
    /\ pj = PathOff /\ cmd = CmdOff
    /\ db = [sessions |-> SessionIds, filesExists |-> TRUE, files |-> GatewayFiles]
    /\ schemaPc = "done"
    /\ calls = [k \in Callers |-> IdleCall]
    /\ last = NoLast
    /\ hist = NoHist
    /\ lite = LiteOff

Next ==
    \/ \E c \in ConnIds : Connect(c)
    \/ \E c \in ConnIds, sid \in SessionIds : RecvInit(c, sid)
    \/ \E c \in ConnIds, sid \in SessionIds : RecvReconnect(c, sid)
    \/ \E c \in ConnIds, sid \in SessionIds, input \in InputLines : RecvInput(c, sid, input)
    \/ \E t \in tasks : InitList(t)
    \/ \E t \in tasks : \E fn \in t.todo : InitFile(t, fn)
    \/ \E t \in tasks : InitSpawn(t)
    \/ \E t \in tasks : InputSync(t)
    \/ \E t \in tasks : InputAnalysed(t)
    \/ \E c \in ConnIds : WsClose(c)
    \/ \E sid \in SessionIds : DeleteSessionRequest(sid)
    \/ \E t \in tasks : DeleteSessionFinish(t)
Spec == Init /\ [][Next]_vars

\* hydrate alone: one client initialises s1 over a File Store that holds any
\* of three records, each empty, text or not valid UTF-8
HydrateNames == {<<"a", ".", "t", "x", "t">>, <<"d", "/", ".", "f", "o", "l", "d", "e", "r">>, <<"d", "/", "b", ".", "b", "i", "n">>}
HydrateContents == {<<>>, <<65>>, <<255>>}
HydrateRows == {FileRow(<<"s", "1">>, fn, b) : fn \in HydrateNames, b \in HydrateContents}
HydrateStores ==
    {S \in SUBSET HydrateRows : \A r1, r2 \in S : r1.filename = r2.filename => r1 = r2}
InitHydrate ==
    /\ workspaceDir \in WorkspaceDirs
    /\ GatewayIdle
    /\ pj = PathOff /\ cmd = CmdOff
    /\ \E S \in HydrateStores : db = [sessions |-> SessionIds, filesExists |-> TRUE, files |-> S]
    /\ schemaPc = "done"
    /\ calls = [k \in Callers |-> IdleCall]
    /\ last = NoLast
    /\ hist = NoHist
    /\ lite = LiteOff
NextHydrate ==
    \/ \E c \in ConnIds : Connect(c)
    \/ \E c \in ConnIds : inbox = <<>> /\ RecvInit(c, <<"s", "1">>)
    \/ \E t \in tasks : InitList(t)
    \/ \E t \in tasks : \E fn \in t.todo : InitFile(t, fn)
    \/ \E t \in tasks : InitSpawn(t)
SpecHydrate == InitHydrate /\ [][NextHydrate]_vars

\* WORKSPACE_DIR is not set: the root is the relative default
InitLife == Init /\ workspaceDir = DefaultWorkspaceDir

\* hydrate with failures: a read or write of one record throws, the spawn
\* throws
NextInitFail ==
    \/ NextHydrate
    \/ \E t \in tasks : \E fn \in t.todo : InitFileFail(t, fn)
    \/ \E t \in tasks : InitSpawnFail(t)
SpecInitFail == InitHydrate /\ [][NextInitFail]_vars

\* the periodic re-sync beside one hydrate in which a read or write may
\* fail; the interval timer keeps firing
NextSync ==
    \/ NextHydrate
    \/ \E t \in tasks : \E fn \in t.todo : InitFileFail(t, fn)
    \/ \E sid \in SessionIds : AutoSync(sid)
SpecSync ==
    InitHydrate /\ [][NextSync]_vars /\ WF_vars(\E sid \in SessionIds : AutoSync(sid))

\* sessions whose PTY spawn may fail, beside clients that initialise and
\* reconnect
NextSpawnFail ==
    \/ \E c \in ConnIds : Connect(c)
    \/ \E c \in ConnIds, sid \in SessionIds : RecvInit(c, sid)
    \/ \E c \in ConnIds, sid \in SessionIds : RecvReconnect(c, sid)
    \/ \E t \in tasks : InitList(t)
    \/ \E t \in tasks : \E fn \in t.todo : InitFile(t, fn)
    \/ \E t \in tasks : InitSpawn(t)
    \/ \E t \in tasks : InitSpawnFail(t)
SpecSpawnFail == InitLife /\ [][NextSpawnFail]_vars

\* the life of one session: clients that initialise, reconnect, type `ls` and
\* leave, and PTYs that produce output and exit
LifeLines == {<<"l", "s", "\n">>}
FrameTypes == {"init", "reconnect", "input"}
LifeSessions == {<<"s", "1">>}
NextLife ==
    \/ \E c \in ConnIds : Connect(c)
    \/ \E c \in ConnIds, sid \in LifeSessions : RecvInit(c, sid)
    \/ \E c \in ConnIds, sid \in LifeSessions : RecvReconnect(c, sid)
    \/ \E c \in ConnIds, sid \in LifeSessions, input \in LifeLines : RecvInput(c, sid, input)
    \/ \E t \in tasks : InitList(t)
    \/ \E t \in tasks : \E fn \in t.todo : InitFile(t, fn)
    \/ \E t \in tasks : InitSpawn(t)
    \/ \E p \in 1..Len(ptys) : PtyData(p)
    \/ \E p \in 1..Len(ptys) : PtyExit(p)
    \/ \E c \in ConnIds : WsClose(c)
SpecLife == InitLife /\ [][NextLife]_vars

\* a watched command under the clock: a client initialises the session and
\* types `npm test`, the PTY answers or stays silent, time passes
WatchLines == {<<"n", "p", "m", " ", "t", "e", "s", "t", "\n">>}
NextWatch ==
    \/ \E c \in ConnIds : Connect(c)
    \/ \E c \in ConnIds, sid \in LifeSessions : RecvInit(c, sid)
    \/ \E c \in ConnIds, sid \in LifeSessions, input \in WatchLines : RecvInput(c, sid, input)
    \/ \E t \in tasks : InitList(t)
    \/ \E t \in tasks : \E fn \in t.todo : InitFile(t, fn)
    \/ \E t \in tasks : InitSpawn(t)
    \/ \E t \in tasks : InputSync(t)
    \/ \E t \in tasks : InputAnalysed(t)
    \/ \E p \in 1..Len(ptys) : PtyData(p)
    \/ \E p \in 1..Len(ptys) : CommandTimeout(p)
    \/ Tick
SpecWatch == InitLife /\ [][NextWatch]_vars

\* frames that are user input errors, beside clients that initialise sessions
\* and leave
NextFrames ==
    \/ \E c \in ConnIds : Connect(c)
    \/ \E c \in ConnIds, sid \in SessionIds : RecvInit(c, sid)
    \/ \E c \in ConnIds, type \in FrameTypes : RecvNoSessionId(c, type)
    \/ \E c \in ConnIds : RecvMalformed(c)
    \/ \E t \in tasks : InitList(t)
    \/ \E t \in tasks : \E fn \in t.todo : InitFile(t, fn)
    \/ \E t \in tasks : InitSpawn(t)
    \/ \E c \in ConnIds : WsClose(c)
SpecFrames == Init /\ [][NextFrames]_vars

\* shell lines and HTTP requests that change File Records: session s1 holds
\* folder f with its placeholder, f.txt and f2/x.txt, session s2 holds f/x.txt
FileLines == {<<"m", "k", "d", "i", "r", " ", "d", "\n">>, <<"r", "m", " ", "-", "r", "f", " ", "f", "\n">>, <<"r", "m", " ", "f", ".", "t", "x", "t", "\n">>, <<"t", "o", "u", "c", "h", " ", "t", "\n">>}
FolderF == <<"f">>
FilesStore ==
    {FileRow(<<"s", "1">>, <<"f", "/", "x", ".", "t", "x", "t">>, <<65>>), FileRow(<<"s", "1">>, <<"f", "/", ".", "f", "o", "l", "d", "e", "r">>, <<>>),
     FileRow(<<"s", "1">>, <<"f", ".", "t", "x", "t">>, <<65>>), FileRow(<<"s", "1">>, <<"f", "2", "/", "x", ".", "t", "x", "t">>, <<65>>),
     FileRow(<<"s", "2">>, <<"f", "/", "x", ".", "t", "x", "t">>, <<65>>)}
InitFiles ==
    /\ workspaceDir \in WorkspaceDirs
    /\ GatewayIdle
    /\ pj = PathOff /\ cmd = CmdOff
    /\ db = [sessions |-> SessionIds, filesExists |-> TRUE, files |-> FilesStore]
    /\ schemaPc = "done"
    /\ calls = [k \in Callers |-> IdleCall]
    /\ last = NoLast
    /\ hist = NoHist
    /\ lite = LiteOff
NextFiles ==
    \/ \E c \in ConnIds : Connect(c)
    \/ \E c \in ConnIds, sid \in LifeSessions : RecvInit(c, sid)
    \/ \E c \in ConnIds, sid \in LifeSessions, input \in FileLines : RecvInput(c, sid, input)
    \/ \E t \in tasks : InitList(t)
    \/ \E t \in tasks : \E fn \in t.todo : InitFile(t, fn)
    \/ \E t \in tasks : InitSpawn(t)
    \/ \E t \in tasks : InputPropagate(t)
    \/ \E t \in tasks : InputPropagateFail(t)
    \/ \E t \in tasks : TouchTimer(t)
    \/ \E sid \in LifeSessions : FoldersDelete(sid, FolderF)
SpecFiles == InitFiles /\ [][NextFiles]_vars

\* the termination signal while clients initialise sessions and leave
NextShutdown ==
    \/ \E c \in ConnIds : Connect(c)
    \/ \E c \in ConnIds, sid \in SessionIds : RecvInit(c, sid)
    \/ \E t \in tasks : InitList(t)
    \/ \E t \in tasks : \E fn \in t.todo : InitFile(t, fn)
    \/ \E t \in tasks : InitSpawn(t)
    \/ \E c \in ConnIds : WsClose(c)
    \/ Shutdown
    \/ WssClosed
    \/ HttpClosed
SpecShutdown == Init /\ [][NextShutdown]_vars

\* command analysis alone
InitAnalysis ==
    /\ pj = PathOff
    /\ \E l \in AnalysisLines : \E F \in SUBSET AnalysisNames :
       \E r \in AnalysisRoots : \E c \in AnalysisCwds(r) :
          cmd = [CmdOff EXCEPT !.op = "line", !.line = l, !.files = F, !.root = r, !.cwd = c]
    /\ StoreReady
    /\ workspaceDir = DefaultWorkspaceDir /\ GatewayIdle
NextAnalysis == ApplyAnalysis
SpecAnalysis == InitAnalysis /\ [][NextAnalysis]_vars

(***************************************************************************)
(* Claims                                                                  *)
(***************************************************************************)
\* the directory a candidate really denotes, and whether it is the root or below it
IsSegPrefix(a, b) == Len(a) <= Len(b) /\ SubSeq(b, 1, Len(a)) = a
JailInside == IsSegPrefix(ResolveSegs(<<>>, pj.root), ResolveSegs(pj.cwd, pj.cand))

\* C5: a candidate whose resolved path is neither the workspace root nor below
\* it resolves to null, for resolvePath and for toRel
C5_EscapeIsNull == (pj.op \in {"resolvePath", "toRel"} /\ ~JailInside) => pj.result = Null

\* C7: a saveFile call made while the schema is ready completes without error
\* even when another call on the same (session, path) runs beside it, and the
\* store holds at most one record for the pair, whose content is that of a call
C7_ConcurrentSavesSucceed ==
    /\ (last.op = "save" /\ last.ready) => last.err = "none"
    /\ Cardinality(MatchingRows(db, StoreSession, StoreFile)) <= 1
    /\ \A r \in MatchingRows(db, StoreSession, StoreFile) : \E c \in SaveContents : r.content = BufferFrom(c)

\* what readFileByName returned, against the content X that was saved: the same
\* string, or the same bytes when X is a buffer
SameContent(val, x) ==
    /\ val.some
    /\ IF x.kind = "string" THEN val.v = x.data ELSE Utf8Encode(val.v) = x.data

\* C8: readFileByName after a completed saveFile, with no other save, delete or
\* drop of the table between them, returns exactly the saved content; it returns
\* null only when no record exists
C8_RoundTrip ==
    /\ (last.op = "read" /\ last.err = "none" /\ hist.some /\ ~hist.dropped) => SameContent(last.val, hist.content)
    /\ (last.op = "read" /\ last.err = "none" /\ last.val = Null) => MatchingRows(db, StoreSession, StoreFile) = {}

\* C9: once schema initialisation has finished, the record of every completed
\* saveFile (not deleted since) is in the store, whether the save ran before the
\* process stopped or while initialisation was running
C9_Durable ==
    (schemaPc = "done" /\ hist.some) =>
        \E r \in MatchingRows(db, StoreSession, StoreFile) : r.content = BufferFrom(hist.content)

(***************************************************************************)
(* Claims about the gateway                                                *)
(***************************************************************************)
AlivePtys(sid) == {p \in 1..Len(ptys) : ptys[p].sid = sid /\ ~ptys[p].killed /\ ~ptys[p].exited}
\* the session registered under sid has a spawned, ready, running PTY
ReadySession(sid) ==
    /\ sessions[sid] # 0
    /\ objs[sessions[sid]].ptyProcess # 0
    /\ objs[sessions[sid]].ptyReady
DeleteIssued(sid) == \E i \in 1..Len(inbox) : inbox[i].type = "delete" /\ inbox[i].sid = sid

\* C1: when the transport attached to a session with a spawned, ready PTY
\* closes and no session-delete was issued for it, the PTY is not killed and
\* the registry entry is not removed
C1_CloseKeepsSession ==
    [][\A c \in ConnIds : \A sid \in SessionIds :
          (/\ conns[c].state # "closed" /\ conns'[c].state = "closed"
           /\ ReadySession(sid)
           /\ objs[sessions[sid]].ws = c
           /\ ~ptys[objs[sessions[sid]].ptyProcess].killed
           /\ ~DeleteIssued(sid))
          => (/\ sessions'[sid] = sessions[sid]
              /\ ~ptys'[objs[sessions[sid]].ptyProcess].killed)]_vars

\* C2: whatever init and reconnect messages arrive for a session id, at most
\* one PTY spawned for that id is alive
C2_OnePtyPerSession == \A sid \in SessionIds : Cardinality(AlivePtys(sid)) <= 1

\* C3: two inputs received on one connection and both forwarded to a PTY are
\* written to it in the order they were received
C3_InputOrder ==
    \A p \in 1..Len(ptys) : \A i, j \in 1..Len(ptys[p].input) :
        (/\ i < j
         /\ ptys[p].input[i].kind = "input" /\ ptys[p].input[j].kind = "input"
         /\ ptys[p].input[i].conn = ptys[p].input[j].conn)
        => ptys[p].input[i].msg < ptys[p].input[j].msg

\* the pattern `cd /app` in any letter case, anywhere in the line
ContainsCdApp(line) ==
    \E i \in 1..Len(line) : i + 6 <= Len(line) /\
        ToLowerCase(SubSeq(line, i, i + 6)) = <<"c", "d", " ", "/", "a", "p", "p">>
Range(s) == {s[i] : i \in 1..Len(s)}

\* C4: an input on a ready session that contains `cd /app` in any letter
\* case is never written to the PTY; on its receipt the sender gets the
\* security diagnostic as `output` and nothing else happens: no cwd
\* tracking, no analysis, no File Store or disk change
C4_DangerousBlocked ==
    /\ [][\A c \in ConnIds : \A sid \in SessionIds : \A line \in InputLines :
             (/\ inbox' = Append(inbox, [conn |-> c, type |-> "input", sid |-> sid, data |-> line])
              /\ ContainsCdApp(line)
              /\ ReadySession(sid))
             => (/\ sent' = Send(sent, c, Event("output", "[SECURITY]", Len(inbox) + 1))
                 /\ UNCHANGED <<objs, ptys, tasks, db, disk, sessions>>)]_vars
    /\ [](\A p \in 1..Len(ptys) : \A e \in Range(ptys[p].input) :
             e.kind = "input" => ~ContainsCdApp(e.data))
\* a ready session has received such a line and its sender holds the
\* diagnostic
C4_Witness ==
    \E n \in 1..Len(inbox) :
        /\ inbox[n].type = "input" /\ ContainsCdApp(inbox[n].data)
        /\ AlivePtys(inbox[n].sid) # {}
        /\ Event("output", "[SECURITY]", n) \in Range(sent[inbox[n].conn])

\* C10: session-delete of S removes S's registry entry, kills its PTY and
\* closes its transport, and leaves every other session's entry, PTY and
\* transport as they were; with no entry for S nothing in the registry changes
C10_DeleteIsolated ==
    [][\A t \in tasks : (t.kind = "delete" /\ t \notin tasks') =>
          /\ sessions'[t.sid] = 0
          /\ sessions[t.sid] # 0 =>
                /\ conns'[objs[sessions[t.sid]].ws].state # "open"
                /\ objs[sessions[t.sid]].ptyProcess # 0 =>
                      ptys'[objs[sessions[t.sid]].ptyProcess].killed
          /\ sessions[t.sid] = 0 => UNCHANGED <<sessions, objs, ptys, conns>>
          /\ \A other \in SessionIds \ {t.sid} :
                /\ sessions'[other] = sessions[other]
                /\ sessions[other] # 0 =>
                      /\ objs'[sessions[other]] = objs[sessions[other]]
                      /\ conns'[objs[sessions[other]].ws] = conns[objs[sessions[other]].ws]
                      /\ objs[sessions[other]].ptyProcess # 0 =>
                            ptys'[objs[sessions[other]].ptyProcess] =
                                ptys[objs[sessions[other]].ptyProcess]]_vars

\* C6: once the hydrate step of an init has completed, every File Record of
\* the session has a file on disk at its relative path with the same bytes
\* (every record of the File Store has non-null content)
C6_HydrateComplete ==
    \A o \in 1..Len(objs) :
        (\A t \in tasks : ~(t.kind = "init" /\ t.obj = o /\ t.phase \in {"list", "files"}))
        => \A r \in db.files : r.session_id = objs[o].sid => r \in disk

\* the events a step adds to the log of connection c
NewEvents(c) == {sent'[c][i] : i \in (Len(sent[c]) + 1)..Len(sent'[c])}

\* C15: a reconnect on an open connection that finds its session in the
\* registry with a running PTY is acknowledged with a `session_restored` event
C15_ReconnectRestored ==
    [][\A c \in ConnIds : \A sid \in SessionIds :
          (/\ inbox' = Append(inbox, [conn |-> c, type |-> "reconnect", sid |-> sid, data |-> <<>>])
           /\ conns[c].state = "open"
           /\ ReadySession(sid)
           /\ ~ptys[objs[sessions[sid]].ptyProcess].killed)
          => \E e \in NewEvents(c) : e.type = "session_restored"]_vars

\* C13: an input for a session that is absent from the registry is answered
\* with the error `Session not found`, one for a session that is not ready
\* with the error `Terminal not ready`; in both cases nothing is written to a
\* PTY, no handler is left pending, and no session object (tracked cwd), File
\* Record or workspace file changes
C13_InputNeedsReady ==
    [][\A c \in ConnIds : \A sid \in SessionIds : \A line \in InputLines :
          (/\ inbox' = Append(inbox, [conn |-> c, type |-> "input", sid |-> sid, data |-> line])
           /\ ~ReadySession(sid))
          => (/\ UNCHANGED <<ptys, objs, tasks, db, disk, sessions>>
              /\ conns[c].state = "open" =>
                    sent'[c] = Append(sent[c],
                        [type |-> "error",
                         text |-> IF sessions[sid] = 0 THEN "Session not found"
                                  ELSE "Terminal not ready",
                         msg |-> Len(inbox) + 1]))]_vars
\* an input reached a registered session whose PTY was not ready yet
C13_Witness ==
    \E n \in 1..Len(inbox) :
        /\ inbox[n].type = "input"
        /\ [type |-> "error", text |-> "Terminal not ready", msg |-> n]
               \in Range(sent[inbox[n].conn])

\* an `npm test` whose session has no package.json File Record anywhere
NpmTestWithoutPackageJson(t) ==
    /\ t.kind = "input" /\ t.phase = "analyze"
    /\ Executable(t.data) = <<"n", "p", "m">> /\ Args(t.data) = <<<<"t", "e", "s", "t">>>>
    /\ \A fn \in listFilesBySession(db, t.sid) :
          fn # <<"p", "a", "c", "k", "a", "g", "e", ".", "j", "s", "o", "n">> /\ ~EndsWith(fn, <<"/", "p", "a", "c", "k", "a", "g", "e", ".", "j", "s", "o", "n">>)

\* C17: when the analysis of an input blocks it (npm test with no
\* package.json), the line is not written to any PTY, the sender gets the
\* diagnostic as `output` and no `error`, and the session stays registered
\* and ready
C17_BlockIsAdvisory ==
    [][\A t \in tasks : (NpmTestWithoutPackageJson(t) /\ t \notin tasks') =>
          /\ UNCHANGED <<ptys, objs, sessions, conns>>
          /\ \A e \in NewEvents(t.conn) : e.type = "output"
          /\ conns[t.conn].state = "open" =>
                [type |-> "output", text |-> "[ERROR]", msg |-> t.id] \in NewEvents(t.conn)]_vars
\* the diagnostic of a blocked `npm test` reached its sender, whose session
\* is still registered and ready
C17_Witness ==
    \E n \in 1..Len(inbox) :
        /\ inbox[n].type = "input" /\ Executable(inbox[n].data) = <<"n", "p", "m">>
        /\ ReadySession(inbox[n].sid)
        /\ [type |-> "output", text |-> "[ERROR]", msg |-> n] \in Range(sent[inbox[n].conn])
        /\ \A p \in 1..Len(ptys) : \A e \in Range(ptys[p].input) : e.msg # n

\* C20: when the analysis of an input redirects to directory D and the PTY of
\* the session is running, the tracked cwd becomes D below the workspace root,
\* the PTY receives a `cd` and then the original line, and the sender gets
\* the notice
C20_RedirectThenRun ==
    [][\A t \in tasks :
          LET root == SessionWorkspaceDir(workspaceDir, t.sid)
              an == analyzeCommandRequirements(Executable(t.data), Args(t.data),
                        listFilesBySession(db, t.sid), root, t.cwd)
              p == objs[t.obj].ptyProcess
          IN (/\ t.kind = "input" /\ t.phase = "analyze" /\ t \notin tasks'
              /\ an.action = "redirect"
              /\ ~ptys[p].killed)
             => (/\ objs'[t.obj].currentCwd = PathJoin(root, an.newCwd)
                 /\ Len(ptys'[p].input) = Len(ptys[p].input) + 2
                 /\ ptys'[p].input[Len(ptys[p].input) + 1].kind = "cd"
                 /\ ptys'[p].input[Len(ptys[p].input) + 2] =
                        [kind |-> "input", data |-> t.data, conn |-> t.conn, msg |-> t.id]
                 /\ conns[t.conn].state = "open" =>
                       [type |-> "output", text |-> "[AUTO]", msg |-> t.id]
                           \in NewEvents(t.conn))]_vars

\* C18: with the tracked cwd at the workspace root, every File Record below
\* proj/ and proj/package.json among them, `npm test` is redirected to proj
C18_RedirectToProj ==
    (/\ cmd.op = "analysed"
     /\ Executable(cmd.line) = <<"n", "p", "m">> /\ Args(cmd.line) = <<<<"t", "e", "s", "t">>>>
     /\ cmd.cwd = cmd.root
     /\ <<"p", "r", "o", "j", "/", "p", "a", "c", "k", "a", "g", "e", ".", "j", "s", "o", "n">> \in cmd.files
     /\ \A fn \in cmd.files : StartsWith(fn, <<"p", "r", "o", "j", "/">>))
    => (cmd.result.action = "redirect" /\ cmd.result.newCwd = <<"p", "r", "o", "j">>)

\* C19: a cargo line is executed when the File Store has Cargo.toml at the
\* tracked cwd, and blocked with the Cargo.toml diagnostic otherwise
C19_CargoNeedsManifest ==
    (cmd.op = "analysed" /\ Executable(cmd.line) = <<"c", "a", "r", "g", "o">>)
    => LET manifest == IF cmd.cwd = cmd.root THEN <<"C", "a", "r", "g", "o", ".", "t", "o", "m", "l">> ELSE <<"p", "r", "o", "j", "/", "C", "a", "r", "g", "o", ".", "t", "o", "m", "l">> IN
       IF manifest \in cmd.files
       THEN cmd.result.action = "execute"
       ELSE /\ cmd.result.action = "block"
            /\ cmd.result.message = "Cargo.toml not found. Cargo commands require a Rust project."


\* C11: when the PTY that is the handle of a registered session exits, an
\* `exit` event is sent to the session's attached transport if it is open, and
\* the session's entry is removed from the registry
C11_ExitRemovesSession ==
    [][\A p \in 1..Len(ptys) : \A sid \in SessionIds :
          (/\ ~ptys[p].exited /\ ptys'[p].exited
           /\ sessions[sid] # 0
           /\ objs[sessions[sid]].ptyProcess = p)
          => (/\ sessions'[sid] = 0
              /\ conns[objs[sessions[sid]].ws].state = "open" =>
                    \E e \in NewEvents(objs[sessions[sid]].ws) : e.type = "exit")]_vars


\* C16: a frame that is a user input error (an init, reconnect or input
\* without a session id, or a frame that is not JSON) is answered with an
\* `error` event on the same transport when it is open; the connection keeps
\* its state and the registry is unchanged
C16_InputErrorsReported ==
    [][\A c \in ConnIds : \A type \in FrameTypes \cup {"malformed"} :
          inbox' = Append(inbox, [conn |-> c, type |-> type, sid |-> <<>>, data |-> <<>>])
          => (/\ conns'[c].state = conns[c].state
              /\ sessions' = sessions
              /\ conns[c].state = "open" =>
                    \E e \in NewEvents(c) : e.type = "error")]_vars


\* the frames that attach a transport to session sid, and the connection of
\* the latest of them
BindFrames(sid) ==
    {i \in 1..Len(inbox) : inbox[i].sid = sid /\ inbox[i].type \in {"init", "reconnect"}}
LastBinder(sid) ==
    inbox[CHOOSE i \in BindFrames(sid) : \A j \in BindFrames(sid) : j <= i].conn

\* C14: a reconnect for a session that is in the registry with a ready PTY
\* attaches the session to the new connection, sends the readiness event to
\* it at once, and leaves the PTY handle, the readiness flag, the tracked cwd,
\* the registry and the PTYs unchanged; a chunk of output of the session's PTY
\* is sent to the connection of the latest init or reconnect and to no other
C14_ReconnectRebinds ==
    [][/\ \A c \in ConnIds : \A sid \in SessionIds :
            (/\ inbox' = Append(inbox, [conn |-> c, type |-> "reconnect", sid |-> sid, data |-> <<>>])
             /\ ReadySession(sid))
            => (/\ objs' = [objs EXCEPT ![sessions[sid]].ws = c]
                /\ sessions' = sessions /\ ptys' = ptys
                /\ conns[c].state = "open" =>
                      sent'[c] = Append(sent[c], [type |-> "pty-ready", text |-> "Terminal ready",
                                                  msg |-> Len(inbox) + 1]))
       /\ \A p \in 1..Len(ptys) : \A sid \in SessionIds :
            (/\ ptys'[p].out = ptys[p].out + 1
             /\ sessions[sid] # 0
             /\ objs[sessions[sid]].ptyProcess = p)
            => (/\ \A c \in ConnIds \ {LastBinder(sid)} : sent'[c] = sent[c]
                /\ conns[LastBinder(sid)].state = "open" =>
                      sent'[LastBinder(sid)] =
                          Append(sent[LastBinder(sid)],
                                 [type |-> "output", text |-> "pty-data", msg |-> p]))]_vars
\* a ready session was reconnected from a connection other than the one that
\* spawned its PTY, and output of the PTY was then delivered to that connection
C14_Witness ==
    \E p \in 1..Len(ptys) : \E c \in ConnIds : \E n \in 1..Len(inbox) :
        /\ c # ptys[p].input[1].conn
        /\ inbox[n] = [conn |-> c, type |-> "reconnect", sid |-> ptys[p].sid, data |-> <<>>]
        /\ \E i \in 1..Len(sent[c]) : \E k \in 1..Len(sent[c]) :
              /\ i < k
              /\ sent[c][i] = [type |-> "pty-ready", text |-> "Terminal ready", msg |-> n]
              /\ sent[c][k] = [type |-> "output", text |-> "pty-data", msg |-> p]


\* C12: the step that handles the termination signal kills the PTY of every
\* session in the registry and closes its attached transport while both
\* servers are still up; the servers are closed and the process exits only in
\* later steps
C12_ShutdownKillsFirst ==
    [][/\ (proc = "running" /\ proc' # "running")
          => (/\ proc' = "wss-closing"
              /\ \A sid \in SessionIds : sessions[sid] # 0 =>
                    (/\ objs[sessions[sid]].ptyProcess # 0 =>
                            ptys'[objs[sessions[sid]].ptyProcess].killed
                     /\ conns'[objs[sessions[sid]].ws].state # "open"))
       /\ proc' \in {"http-closing", "exited"} => proc # "running"]_vars
\* the signal arrived while a session with a spawned PTY and an open transport
\* was registered: its PTY is killed, its transport is closing, the servers
\* are not closed yet
C12_Witness ==
    /\ proc = "wss-closing"
    /\ \E sid \in SessionIds :
          /\ ReadySession(sid)
          /\ ptys[objs[sessions[sid]].ptyProcess].killed
          /\ conns[objs[sessions[sid]].ws].state = "closing"


\* C28: when a transport closes that is not the attached transport of a
\* registered session with a ready PTY (the session was initialised once and
\* another connection reconnected to it), that session stays in the registry
\* and its PTY is not killed
C28_CloseOfDetachedTransport ==
    [][\A c \in ConnIds : \A sid \in SessionIds :
          (/\ conns[c].state # "closed" /\ conns'[c].state = "closed"
           /\ ReadySession(sid)
           /\ objs[sessions[sid]].ws # c
           /\ Cardinality({i \in BindFrames(sid) : inbox[i].type = "init"}) = 1)
          => (/\ sessions'[sid] = sessions[sid]
              /\ ptys'[objs[sessions[sid]].ptyProcess].killed =
                    ptys[objs[sessions[sid]].ptyProcess].killed)]_vars


\* C29: an input line is written to the PTY of a session only if the
\* connection that sent it had earlier sent an init or reconnect for that
\* session, and a closing connection neither kills nor removes a session for
\* which it sent only input frames
C29_OnlyBoundConnectionDrives ==
    [][/\ \A p \in 1..Len(ptys) :
            Len(ptys'[p].input) > Len(ptys[p].input) =>
               LET e == ptys'[p].input[Len(ptys'[p].input)] IN
               e.kind = "input" =>
                  \E i \in BindFrames(ptys[p].sid) : inbox[i].conn = e.conn /\ i < e.msg
       /\ \A c \in ConnIds : \A sid \in SessionIds :
            (/\ conns[c].state # "closed" /\ conns'[c].state = "closed"
             /\ sessions[sid] # 0
             /\ ~\E i \in BindFrames(sid) : inbox[i].conn = c)
            => (/\ sessions'[sid] = sessions[sid]
                /\ ptys' = ptys)]_vars


\* C27: while a handler for a session is suspended at an asynchronous File
\* Store or filesystem step, no other handler changes that session's registry
\* entry, PTY handle, transport handle, readiness flag or tracked cwd
C27_HandlersSerialized ==
    [][\A t \in tasks :
          (t \in tasks' /\ t.kind \in {"init", "input"})
          => (/\ sessions'[t.sid] = sessions[t.sid]
              /\ sessions[t.sid] # 0 => objs'[sessions[t.sid]] = objs[sessions[t.sid]])]_vars


\* the watched line a running PTY received last, if any
LastLine(p) ==
    LET lines == {i \in 1..Len(ptys[p].input) : ptys[p].input[i].kind \in {"input", "interrupt"}}
        i == CHOOSE k \in lines : \A j \in lines : j <= k
    IN IF lines = {} \/ ptys[p].killed \/ ptys[p].exited THEN <<>>
       ELSE IF ptys[p].input[i].kind = "interrupt" THEN <<>> ELSE ptys[p].input[i].data

\* C24: after a watched line (npm, node, python) was forwarded to a running
\* PTY, the PTY never stays without new output for longer than the line's
\* threshold without an interrupt being written, and an interrupt is written
\* only when no output arrived for the threshold
C24_WatchdogFromLastOutput ==
    [][/\ \A p \in 1..Len(ptys) :
            (LastLine(p) # <<>> /\ CommandThreshold(LastLine(p)) > 0)
            => ptys[p].idle <= CommandThreshold(LastLine(p))
       /\ \A p \in 1..Len(ptys) :
            (/\ Len(ptys'[p].input) > Len(ptys[p].input)
             /\ ptys'[p].input[Len(ptys'[p].input)].kind = "interrupt")
            => (LastLine(p) # <<>> /\ ptys[p].idle >= CommandThreshold(LastLine(p)))]_vars


\* C30: when the hydrate step of an init ends, at most one File Record of the
\* session with content to write (the one whose read or write failed) has no
\* file on disk, and the tracked cwd is the one the single-top-level-directory
\* detection gives for the listed records
C30_HydrateFailureIsolated ==
    [][\A t \in tasks :
          (/\ t.kind = "init" /\ t.phase = "files"
           /\ \E u \in tasks' : u.id = t.id /\ u.phase = "spawn")
          => (/\ Cardinality({fn \in t.listed :
                     /\ Truthy(readFileByName(db, t.sid, fn))
                     /\ DiskFile(disk', t.sid, fn) = {}}) <= 1
              /\ objs'[t.obj].currentCwd =
                    AutoCd(SessionWorkspaceDir(workspaceDir, t.sid), objs[t.obj].currentCwd,
                           t.listed, disk', t.sid))]_vars


\* C26: a session's readiness flag is true only if its PTY handle is set to a
\* spawned PTY; a session becomes ready only in the step that spawns its PTY;
\* `pty-ready` is sent only for a session that is ready; and when the spawn
\* of an init fails, the sender gets an `error` event, the session is not
\* ready, and the registry, the PTYs and every other session object are
\* unchanged
C26_ReadyOnlyAfterSpawn ==
    [][/\ \A o \in 1..Len(objs) : objs[o].ptyReady =>
            (/\ objs[o].ptyProcess \in 1..Len(ptys)
             /\ ptys[objs[o].ptyProcess].obj = o)
       /\ \A o \in 1..Len(objs) : (objs'[o].ptyReady /\ ~objs[o].ptyReady) =>
            (/\ Len(ptys') = Len(ptys) + 1
             /\ ptys'[Len(ptys')].obj = o
             /\ objs'[o].ptyProcess = Len(ptys'))
       /\ \A c \in ConnIds : \A e \in NewEvents(c) : e.type = "pty-ready" =>
            \E o \in 1..Len(objs') :
               objs'[o].sid = inbox'[e.msg].sid /\ objs'[o].ptyReady /\ objs'[o].ptyProcess # 0
       /\ \A t \in tasks :
            (/\ t.kind = "init" /\ t.phase = "spawn" /\ t \notin tasks'
             /\ Len(ptys') = Len(ptys))
            => (/\ conns[t.conn].state = "open" =>
                      \E e \in NewEvents(t.conn) : e.type = "error" /\ e.msg = t.id
                /\ ~objs'[t.obj].ptyReady
                /\ objs' = objs /\ sessions' = sessions /\ ptys' = ptys)]_vars
\* the spawn of one session's init failed and was reported, the session is
\* registered and not ready, and another session is ready
C26_Witness ==
    \E c \in ConnIds : \E i \in 1..Len(sent[c]) :
        /\ sent[c][i].type = "error" /\ sent[c][i].text = "Failed to initialize terminal"
        /\ sessions[inbox[sent[c][i].msg].sid] # 0
        /\ ~objs[sessions[inbox[sent[c][i].msg].sid]].ptyReady
        /\ \E other \in SessionIds \ {inbox[sent[c][i].msg].sid} : ReadySession(other)


\* the File Records of session sid below folder f
Below(files, sid, f) == {r \in files : r.session_id = sid /\ StartsWith(r.filename, f \o Slash)}

\* C21: an HTTP folder-delete of f, and an `rm -rf f` line typed at the
\* workspace root (checked when the line is written to the PTY), remove
\* exactly the File Records of the session whose path starts with `f/` and
\* leave every other record unchanged; an `rm f.txt` line removes at most the
\* record f.txt of the session
C21_FolderDeleteExact ==
    [][/\ \A sid \in SessionIds :
            inbox' = Append(inbox, [conn |-> 0, type |-> "folders-delete", sid |-> sid,
                                    data |-> FolderF])
            => db'.files = db.files \ Below(db.files, sid, FolderF)
       /\ \A p \in 1..Len(ptys) :
            (/\ Len(ptys'[p].input) > Len(ptys[p].input)
             /\ ptys'[p].input[Len(ptys'[p].input)].kind = "input"
             /\ objs[ptys[p].obj].currentCwd = SessionWorkspaceDir(workspaceDir, ptys[p].sid))
            => LET line == ptys'[p].input[Len(ptys'[p].input)].data IN
               /\ line = <<"r", "m", " ", "-", "r", "f", " ", "f", "\n">> =>
                     db'.files = db.files \ Below(db.files, ptys[p].sid, FolderF)
               /\ line = <<"r", "m", " ", "f", ".", "t", "x", "t", "\n">> =>
                     /\ db'.files \subseteq db.files
                     /\ db.files \ db'.files \subseteq
                           {r \in db.files : r.session_id = ptys[p].sid /\ r.filename = <<"f", ".", "t", "x", "t">>}]_vars


\* C22: a mkdir, touch or rm line received for a session with a ready,
\* running PTY is written to that PTY in the step that receives it, without
\* waiting for the File Store statements it triggers; and when such a
\* statement fails the line is written all the same
C22_PropagationNeverDelays ==
    [][/\ \A c \in ConnIds : \A sid \in SessionIds : \A line \in FileLines :
            (/\ inbox' = Append(inbox, [conn |-> c, type |-> "input", sid |-> sid, data |-> line])
             /\ ReadySession(sid)
             /\ objs[sessions[sid]].ptyProcess \in AlivePtys(sid))
            => LET p == objs[sessions[sid]].ptyProcess IN
               ptys'[p].input = Append(ptys[p].input,
                   [kind |-> "input", data |-> line, conn |-> c, msg |-> Len(inbox) + 1])
       /\ \A t \in tasks :
            (/\ t.kind = "input" /\ t.phase = "propagate" /\ t \notin tasks'
             /\ objs[t.obj].ptyProcess \in AlivePtys(t.sid))
            => LET p == objs[t.obj].ptyProcess IN
               ptys'[p].input = Append(ptys[p].input,
                   [kind |-> "input", data |-> t.data, conn |-> t.conn, msg |-> t.id])]_vars


\* C23: if a session stays registered and ready from some point on (no File
\* Record is saved or deleted, the File Store and the filesystem stay
\* available, the periodic re-sync is scheduled fairly), then eventually
\* every File Record of the session has a file on disk at its relative path
\* with the record's content
C23_EventuallyOnDisk ==
    \A sid \in SessionIds :
        <>[]ReadySession(sid) =>
            <>(\A r \in db.files : r.session_id = sid => r \in disk)


\* ---------------------------------------------------------------------
\* The SQLite session store (src/db/sqlite.js).  getDatabase() hands every
\* caller the same connection, so a transaction belongs to the connection:
\* BEGIN fails while one is open, COMMIT and ROLLBACK fail when none is,
\* a statement run while one is open joins it, and ROLLBACK undoes every
\* statement run on the connection since the BEGIN.  Each await is a step.
\* ---------------------------------------------------------------------
MaxLiteCalls == 3
LiteCallers == 1..MaxLiteCalls
\* Google accounts that sign in; each has its own e-mail address
LiteAccounts == {"g1", "g2"}
NewLiteCall == [op |-> "none", pc |-> "new", google |-> "", userId |-> 0, sid |-> <<>>, tok |-> 0]

\* database.run('BEGIN TRANSACTION'): the tables as they are now are what
\* a later ROLLBACK restores
LiteBegin(l, k, next) ==
    IF l.tx THEN [l EXCEPT !.calls[k].pc = "rollback"]
    ELSE [l EXCEPT !.tx = TRUE, !.undo = <<l.users, l.sessions>>, !.calls[k].pc = next]

\* database.run('COMMIT')
LiteCommit(l, k) ==
    IF l.tx THEN [l EXCEPT !.tx = FALSE, !.calls[k].pc = "done"]
    ELSE [l EXCEPT !.calls[k].pc = "rollback"]

\* catch (error) { await database.run('ROLLBACK'); throw error }
LiteRollback(l, k) ==
    IF l.tx THEN [l EXCEPT !.tx = FALSE, !.users = l.undo[1], !.sessions = l.undo[2],
                           !.calls[k].pc = "failed"]
    ELSE [l EXCEPT !.calls[k].pc = "failed"]

\* verifyTerminalSession(sessionId, terminalToken): the row, or null
verifyTerminalSession(l, sessionId, terminalToken) ==
    LET rows == {s \in l.sessions : /\ s.session_id = sessionId
                                    /\ s.terminal_token = terminalToken
                                    /\ s.is_active}
    IN  IF rows = {} THEN Null ELSE Some(CHOOSE s \in rows : TRUE)

\* a caller invokes upsertUserAndCreateSession({googleId, email}) or
\* deleteSession(sessionId)
LiteCall(k) ==
    /\ lite.calls[k].pc = "new"
    /\ \/ \E g \in LiteAccounts :
            lite' = [lite EXCEPT !.calls[k] = [NewLiteCall EXCEPT !.op = "upsert", !.pc = "begin",
                                                                  !.google = g]]
       \/ \E s \in lite.sessions :
            lite' = [lite EXCEPT !.calls[k] = [NewLiteCall EXCEPT !.op = "delete", !.pc = "begin",
                                                                  !.sid = s.session_id],
                                 !.deleted = @ \cup {s.session_id}]
    /\ UNCHANGED <<pathVars, db, schemaPc, calls, last, hist, gatewayVars>>

\* one statement of upsertUserAndCreateSession (provider google)
upsertUserAndCreateSession(k) ==
    LET c == lite.calls[k]
        found == {u \in lite.users : u.google = c.google}
        active == {s \in lite.sessions : s.user_id = c.userId /\ s.is_active}
        n == lite.seq + 1
    IN
    /\ c.op = "upsert"
    /\ CASE c.pc = "begin" -> lite' = LiteBegin(lite, k, "findUser")
         [] c.pc = "findUser" ->
              IF found = {} THEN lite' = [lite EXCEPT !.calls[k].pc = "insertUser"]
              ELSE \E u \in found :
                     lite' = [lite EXCEPT !.calls[k].userId = u.id, !.calls[k].pc = "findSession"]
         [] c.pc = "insertUser" ->
              \* google_id is UNIQUE
              IF found # {} THEN lite' = [lite EXCEPT !.calls[k].pc = "rollback"]
              ELSE lite' = [lite EXCEPT !.users = @ \cup {[id |-> n, google |-> c.google]},
                                        !.seq = n, !.calls[k].userId = n,
                                        !.calls[k].pc = "findSession"]
         [] c.pc = "findSession" ->
              IF active = {} THEN lite' = [lite EXCEPT !.calls[k].pc = "insertSession"]
              ELSE \E s \in active :
                     lite' = [lite EXCEPT !.calls[k].sid = s.session_id,
                                          !.calls[k].tok = s.terminal_token,
                                          !.calls[k].pc = "commit"]
         [] c.pc = "insertSession" ->
              \* FOREIGN KEY (user_id) REFERENCES users(id), foreign_keys = ON
              IF \A u \in lite.users : u.id # c.userId
              THEN lite' = [lite EXCEPT !.calls[k].pc = "rollback"]
              ELSE lite' = [lite EXCEPT
                              !.sessions = @ \cup {[session_id |-> <<c.userId, n>>,
                                                    user_id |-> c.userId,
                                                    terminal_token |-> n, is_active |-> TRUE]},
                              !.seq = n, !.calls[k].sid = <<c.userId, n>>,
                              !.calls[k].tok = n, !.calls[k].pc = "commit"]
         [] c.pc = "commit" ->
              LET l == LiteCommit(lite, k) IN
              lite' = IF l.calls[k].pc = "done"
                      THEN [l EXCEPT !.returned = @ \cup {[google |-> c.google, sid |-> c.sid,
                                                           tok |-> c.tok]}]
                      ELSE l
         [] c.pc = "rollback" -> lite' = LiteRollback(lite, k)
         [] OTHER -> FALSE
    /\ UNCHANGED <<pathVars, db, schemaPc, calls, last, hist, gatewayVars>>

\* one statement of deleteSession(sessionId)
deleteSession(k) ==
    LET c == lite.calls[k] IN
    /\ c.op = "delete"
    /\ CASE c.pc = "begin" -> lite' = LiteBegin(lite, k, "update")
         [] c.pc = "update" ->
              lite' = [lite EXCEPT
                         !.sessions = {IF s.session_id = c.sid THEN [s EXCEPT !.is_active = FALSE]
                                       ELSE s : s \in @},
                         !.calls[k].pc = "commit"]
         [] c.pc = "commit" -> lite' = LiteCommit(lite, k)
         [] c.pc = "rollback" -> lite' = LiteRollback(lite, k)
         [] OTHER -> FALSE
    /\ UNCHANGED <<pathVars, db, schemaPc, calls, last, hist, gatewayVars>>

\* a caller verifies a session id with a token: one it was given, or another
LiteVerify(sessionId, terminalToken) ==
    /\ lite' = [lite EXCEPT !.last = <<sessionId, terminalToken,
                                       verifyTerminalSession(lite, sessionId, terminalToken)>>]
    /\ lite'.last # lite.last
    /\ UNCHANGED <<pathVars, db, schemaPc, calls, last, hist, gatewayVars>>

InitLite ==
    /\ pj = PathOff /\ cmd = CmdOff
    /\ db = [sessions |-> {StoreSession}, filesExists |-> TRUE, files |-> {}]
    /\ schemaPc = "done"
    /\ calls = [k \in Callers |-> IdleCall]
    /\ last = NoLast
    /\ hist = NoHist
    /\ lite = [LiteOff EXCEPT !.calls = [k \in LiteCallers |-> NewLiteCall]]
    /\ workspaceDir = DefaultWorkspaceDir /\ GatewayIdle
NextLite ==
    \/ \E k \in LiteCallers : LiteCall(k)
    \/ \E k \in LiteCallers : upsertUserAndCreateSession(k)
    \/ \E k \in LiteCallers : deleteSession(k)
    \/ \E p \in lite.returned : \E t \in {p.tok, 0} : LiteVerify(p.sid, t)
SpecLite == InitLite /\ [][NextLite]_vars

\* C25: a pair returned by upsertUserAndCreateSession verifies until
\* deleteSession(sessionId) is called, no other token verifies, nothing
\* verifies once deleteSession has completed, and while a session is active
\* every upsert for its user returns that same pair
C25_SessionPairVerifies ==
    /\ \A p \in lite.returned :
          /\ p.sid \notin lite.deleted => verifyTerminalSession(lite, p.sid, p.tok) # Null
          /\ \A t \in (0..lite.seq) \ {p.tok} : verifyTerminalSession(lite, p.sid, t) = Null
          /\ (\E k \in LiteCallers : /\ lite.calls[k].op = "delete" /\ lite.calls[k].sid = p.sid
                                     /\ lite.calls[k].pc = "done")
                => verifyTerminalSession(lite, p.sid, p.tok) = Null
    /\ \A p, q \in lite.returned :
          /\ p.google = q.google
          /\ verifyTerminalSession(lite, p.sid, p.tok) # Null
          /\ verifyTerminalSession(lite, q.sid, q.tok) # Null
          => p = q


\* ---------------------------------------------------------------------
\* The periodic re-sync, one step per await.  A pass walks sessions.entries()
\* in the order the sessions were registered; `listed` holds the sessions
\* it has visited, `todo` the rows of the current session still to do.
\* ---------------------------------------------------------------------
SyncTasks == {t \in tasks : t.kind = "sync"}
Unvisited(t) == {sid \in SessionIds : sessions[sid] # 0 /\ sid \notin t.listed}
NextToVisit(t) ==
    CHOOSE sid \in Unvisited(t) : \A o \in Unvisited(t) : sessions[sid] <= sessions[o]
SyncReady(sid) == objs[sessions[sid]].ptyReady /\ objs[sessions[sid]].currentCwd # <<>>

\* the interval timer fires
SyncPassStart ==
    /\ proc # "exited"
    /\ SyncTasks = {}
    /\ tasks' = tasks \cup {[NoTask EXCEPT !.kind = "sync", !.phase = "next"]}
    /\ UNCHANGED <<proc, workspaceDir, conns, sessions, objs, ptys, inbox, sent, disk>>
    /\ UNCHANGED <<pathVars, storeVars>>

\* the next registry entry: skipped unless `session.ptyReady &&
\* session.currentCwd`, else await listFilesBySession(sessionId)
SyncVisit(t) ==
    /\ t.kind = "sync" /\ t.phase = "next" /\ Unvisited(t) # {}
    /\ LET sid == NextToVisit(t)
           files == listFilesBySession(db, sid)
       IN tasks' = (tasks \ {t}) \cup
                   {IF SyncReady(sid) /\ files # {}
                    THEN [t EXCEPT !.phase = "files", !.sid = sid, !.todo = files,
                                   !.listed = @ \cup {sid}]
                    ELSE [t EXCEPT !.listed = @ \cup {sid}]}
    /\ UNCHANGED <<proc, workspaceDir, conns, sessions, objs, ptys, inbox, sent, disk>>
    /\ UNCHANGED <<pathVars, storeVars>>

\* listFilesBySession rejects: the await throws outside the per-file try,
\* the outer catch logs and the callback returns
SyncListFail(t) ==
    /\ t.kind = "sync" /\ t.phase = "next" /\ Unvisited(t) # {}
    /\ SyncReady(NextToVisit(t))
    /\ tasks' = tasks \ {t}
    /\ UNCHANGED <<proc, workspaceDir, conns, sessions, objs, ptys, inbox, sent, disk>>
    /\ UNCHANGED <<pathVars, storeVars>>

\* await readFileByName({ sessionId, filename }): the query runs
SyncRead(t, fn) ==
    /\ t.kind = "sync" /\ t.phase = "files" /\ fn \in t.todo
    /\ LET content == readFileByName(db, t.sid, fn) IN
       tasks' = (tasks \ {t}) \cup
                {IF Truthy(content)
                 THEN [t EXCEPT !.phase = "write", !.cwd = fn, !.data = content.v]
                 ELSE [t EXCEPT !.todo = @ \ {fn},
                                !.phase = IF t.todo = {fn} THEN "next" ELSE "files"]}
    /\ UNCHANGED <<proc, workspaceDir, conns, sessions, objs, ptys, inbox, sent, disk>>
    /\ UNCHANGED <<pathVars, storeVars>>

\* the callback resumes with the content: mkdirSync, writeFileSync
SyncWrite(t) ==
    /\ t.kind = "sync" /\ t.phase = "write"
    /\ disk' = DiskWrite(disk, t.sid, t.cwd, t.data)
    /\ tasks' = (tasks \ {t}) \cup
                {[t EXCEPT !.todo = @ \ {t.cwd}, !.cwd = <<>>, !.data = <<>>,
                           !.phase = IF t.todo = {t.cwd} THEN "next" ELSE "files"]}
    /\ UNCHANGED <<proc, workspaceDir, conns, sessions, objs, ptys, inbox, sent>>
    /\ UNCHANGED <<pathVars, storeVars>>

\* the read or the write of one row throws: the per-file catch logs and the
\* loop goes on with the next row
SyncFileFail(t) ==
    /\ t.kind = "sync" /\ t.phase \in {"files", "write"}
    /\ \E fn \in (IF t.phase = "write" THEN {t.cwd} ELSE t.todo) :
         tasks' = (tasks \ {t}) \cup
                  {[t EXCEPT !.todo = @ \ {fn}, !.cwd = <<>>, !.data = <<>>,
                             !.phase = IF t.todo = {fn} THEN "next" ELSE "files"]}
    /\ UNCHANGED <<proc, workspaceDir, conns, sessions, objs, ptys, inbox, sent, disk>>
    /\ UNCHANGED <<pathVars, storeVars>>

\* the iterator is exhausted: the callback returns
SyncPassEnd(t) ==
    /\ t.kind = "sync" /\ t.phase = "next" /\ Unvisited(t) = {}
    /\ tasks' = tasks \ {t}
    /\ UNCHANGED <<proc, workspaceDir, conns, sessions, objs, ptys, inbox, sent, disk>>
    /\ UNCHANGED <<pathVars, storeVars>>

\* two clients initialise s1 and s2 over the File Store of FilesStore, a
\* hydrate may fail, and the re-sync passes run beside them
NextPass ==
    \/ \E c \in ConnIds : Connect(c)
    \/ \E c \in ConnIds, sid \in SessionIds : sessions[sid] = 0 /\ RecvInit(c, sid)
    \/ \E t \in tasks : InitList(t)
    \/ \E t \in tasks : \E fn \in t.todo : InitFile(t, fn)
    \/ \E t \in tasks : \E fn \in t.todo : InitFileFail(t, fn)
    \/ \E t \in tasks : InitSpawn(t)
    \/ SyncPassStart
    \/ \E t \in tasks : SyncVisit(t)
    \/ \E t \in tasks : SyncListFail(t)
    \/ \E t \in tasks : \E fn \in t.todo : SyncRead(t, fn)
    \/ \E t \in tasks : SyncWrite(t)
    \/ \E t \in tasks : SyncFileFail(t)
    \/ \E t \in tasks : SyncPassEnd(t)
SpecPass == InitFiles /\ [][NextPass]_vars


\* C31: within one re-sync pass only ready sessions are worked on, a failure
\* on one file does not end the pass, and when the pass ends, whatever the
\* reason, no ready session other than the one whose step failed is left
\* unvisited
C31_PassSurvivesFailures ==
    [][\A t \in SyncTasks :
          /\ t.phase \in {"files", "write"} => SyncReady(t.sid)
          /\ SyncTasks' = {} =>
                /\ t.phase = "next"
                /\ \A sid \in Unvisited(t) : sid = NextToVisit(t) \/ ~SyncReady(sid)]_vars


\* ---------------------------------------------------------------------
\* Failures inside the analysis of an input line
\* ---------------------------------------------------------------------
\* the mark a suspended handler carries once one of its steps has thrown
Threw == {<<"t", "h", "r", "e", "w">>}

\* ensureFilesSynced: the listing rejects or a write throws; its own catch
\* logs, and analyzeAndExecuteCommand goes on to analyzeCommandRequirements
InputSyncFail(t) ==
    /\ t.kind = "input" /\ t.phase = "sync"
    /\ tasks' = (tasks \ {t}) \cup {[t EXCEPT !.phase = "analyze", !.listed = Threw]}
    /\ UNCHANGED <<proc, workspaceDir, conns, sessions, objs, ptys, inbox, sent, disk>>
    /\ UNCHANGED <<pathVars, storeVars>>

\* analyzeCommandRequirements: await listFilesBySession rejects; the catch of
\* analyzeAndExecuteCommand answers { ok: true, action: 'execute' }
InputAnalyseFail(t) ==
    /\ t.kind = "input" /\ t.phase = "analyze"
    /\ AfterAnalysis(t.conn, t.id, t.sid, t.obj, t.data, Execute, objs)
    /\ tasks' = tasks \ {t}
    /\ UNCHANGED <<proc, workspaceDir, conns, sessions, inbox, disk>>
    /\ UNCHANGED <<pathVars, storeVars>>

\* one client, session s1 over the File Store of FilesStore (no package.json),
\* lines that are analysed or propagated, and steps that throw
FailOpenLines == {<<"n", "p", "m", " ", "t", "e", "s", "t", "\n">>, <<"n", "p", "m", " ", "i", "n", "s", "t", "a", "l", "l", "\n">>, <<"m", "k", "d", "i", "r", " ", "d", "\n">>}
NextFailOpen ==
    \/ \E c \in ConnIds : Connect(c)
    \/ \E c \in ConnIds, sid \in LifeSessions : sessions[sid] = 0 /\ RecvInit(c, sid)
    \/ \E c \in ConnIds, sid \in LifeSessions, input \in FailOpenLines : RecvInput(c, sid, input)
    \/ \E t \in tasks : InitList(t)
    \/ \E t \in tasks : \E fn \in t.todo : InitFile(t, fn)
    \/ \E t \in tasks : InitSpawn(t)
    \/ \E t \in tasks : InputSync(t)
    \/ \E t \in tasks : InputSyncFail(t)
    \/ \E t \in tasks : InputAnalysed(t)
    \/ \E t \in tasks : InputAnalyseFail(t)
    \/ \E t \in tasks : InputPropagate(t)
    \/ \E t \in tasks : InputPropagateFail(t)
SpecFailOpen == InitFiles /\ [][NextFailOpen]_vars

\* the handler t ends in this step with its line appended to the PTY input
LineWritten(t) ==
    LET p == objs[t.obj].ptyProcess IN
    /\ Len(ptys'[p].input) > Len(ptys[p].input)
    /\ ptys'[p].input[Len(ptys'[p].input)] = PtyEntry("input", t.data, t.conn, t.id)

\* C32: whenever a step of the analysis or of the propagation of a line has
\* thrown, the handler ends with the line written to the PTY and without an
\* error event
C32_AnalysisFailsOpen ==
    [][\A t \in tasks :
          (/\ t.kind = "input" /\ t \notin tasks'
           /\ \/ t.listed = Threw
              \/ InputAnalyseFail(t)
              \/ InputPropagateFail(t))
          => /\ LineWritten(t)
             /\ \A i \in 1..Len(sent'[t.conn]) :
                   i > Len(sent[t.conn]) => sent'[t.conn][i].type # "error"]_vars


\* the one top-level directory of the File Records of sid when no record
\* lies at the root, else the empty path
SingleTopLevel(sid) ==
    LET listed == listFilesBySession(db, sid)
        tops == {NameParts(fn)[1] : fn \in {f \in listed : Len(NameParts(f)) > 0}}
    IN IF Cardinality(tops) = 1 /\ \A fn \in listed : Len(NameParts(fn)) # 1
       THEN CHOOSE d \in tops : TRUE ELSE <<>>

\* C33: at the step that spawns the PTY and sends pty-ready for an init, the
\* tracked cwd is the single top-level directory D of the session's records
\* and a cd into D is in the input of the spawned PTY; without such a D the
\* cwd is the workspace root
C33_InitCwdIsProjectDir ==
    [][Len(ptys') > Len(ptys) =>
          LET new == ptys'[Len(ptys')]
              root == SessionWorkspaceDir(workspaceDir, new.sid)
              d == SingleTopLevel(new.sid)
              cwd == objs'[new.obj].currentCwd
          IN IF d = <<>> THEN cwd = root
             ELSE /\ cwd = PathJoin(root, d)
                  /\ \E i \in 1..Len(new.input) :
                        /\ new.input[i].kind = "cd"
                        /\ new.input[i].data = CdLine(PathJoin(root, d))]_vars


\* ---------------------------------------------------------------------
\* node and npm lines analysed over a workspace below an absolute
\* WORKSPACE_DIR, at the root or in proj, for every set of File Records
\* ---------------------------------------------------------------------
NodeLines == {<<"n", "o", "d", "e", " ", "a", "p", "p", ".", "j", "s", "\n">>, <<"n", "o", "d", "e", " ", "-", "-", "i", "n", "s", "p", "e", "c", "t", " ", "a", "p", "p", ".", "j", "s", "\n">>, <<"n", "o", "d", "e", " ", "-", "-", "i", "n", "s", "p", "e", "c", "t", "\n">>, <<"n", "o", "d", "e", "\n">>,
              <<"n", "p", "m", " ", "i", "n", "s", "t", "a", "l", "l", "\n">>, <<"n", "p", "m", " ", "-", "-", "v", "e", "r", "s", "i", "o", "n", "\n">>, <<"n", "p", "m", " ", "t", "e", "s", "t", "\n">>, <<"n", "p", "m", " ", "r", "e", "m", "o", "v", "e", " ", "x", "\n">>,
              <<"n", "p", "m", " ", "i", "n", "i", "t", "\n">>, <<"y", "a", "r", "n", "\n">>}
NodeNames == {<<"a", "p", "p", ".", "j", "s">>, <<"p", "r", "o", "j", "/", "a", "p", "p", ".", "j", "s">>, <<"p", "a", "c", "k", "a", "g", "e", ".", "j", "s", "o", "n">>, <<"p", "r", "o", "j", "/", "p", "a", "c", "k", "a", "g", "e", ".", "j", "s", "o", "n">>}
InitNode ==
    /\ pj = PathOff
    /\ \E l \in NodeLines : \E F \in SUBSET NodeNames :
       \E c \in AnalysisCwds(SessionWorkspaceDir(AbsWorkspaceDir, AnalysisSession)) :
          cmd = [CmdOff EXCEPT !.op = "line", !.line = l, !.files = F,
                               !.root = SessionWorkspaceDir(AbsWorkspaceDir, AnalysisSession),
                               !.cwd = c]
    /\ StoreReady
    /\ workspaceDir = AbsWorkspaceDir /\ GatewayIdle
SpecNode == InitNode /\ [][NextAnalysis]_vars

\* the path of argument a relative to the workspace root when it lies inside
\* the workspace, as the tracked cwd resolves it; Null outside
RelInWorkspace(a) ==
    LET segs == ResolveSegs(cmd.cwd, a)
        rootSegs == ResolveSegs(<<>>, cmd.root)
    IN IF IsSegPrefix(rootSegs, segs)
       THEN Some(Join(SubSeq(segs, Len(rootSegs) + 1, Len(segs)), Slash))
       ELSE Null

\* C34: a node line is blocked exactly when its first argument that does not
\* start with '-' resolves inside the workspace and has no File Record; a
\* line with flags only, or with a leading flag before a present file,
\* executes
C34_NodeChecksFirstNonFlag ==
    (cmd.op = "analysed" /\ Executable(cmd.line) = <<"n", "o", "d", "e">>) =>
        LET args == Args(cmd.line)
            nonFlags == {i \in 1..Len(args) : ~StartsWith(args[i], <<"-">>)}
        IN IF nonFlags = {} THEN cmd.result.action = "execute"
           ELSE LET rel == RelInWorkspace(args[CHOOSE i \in nonFlags : \A j \in nonFlags : i <= j])
                IN IF rel.some /\ rel.v \notin cmd.files
                   THEN cmd.result.action = "block"
                   ELSE cmd.result.action = "execute"

\* C35: an npm, pnpm or yarn line whose sub-command needs no manifest, or is
\* install, init or add, is executed whatever the File Records are; any other
\* line is executed exactly when package.json has a File Record at the
\* tracked cwd, and is redirected or blocked otherwise
C35_NpmSubcommands ==
    (cmd.op = "analysed" /\ Executable(cmd.line) \in nodeManagers) =>
        LET args == Args(cmd.line)
            manifest == RelInWorkspace(PackageJson)
        IN IF Len(args) > 0 /\ args[1] \in noPackageJsonCommands
                                          \cup {<<"i", "n", "s", "t", "a", "l", "l">>, <<"i", "n", "i", "t">>, <<"a", "d", "d">>}
           THEN cmd.result.action = "execute"
           ELSE IF manifest.some /\ manifest.v \in cmd.files
                THEN cmd.result.action = "execute"
                ELSE cmd.result.action \in {"redirect", "block"}


\* C36: every PTY that was spawned and has neither been killed nor exited is
\* the PTY handle of exactly one registered session
C36_NoOrphanPty ==
    \A p \in 1..Len(ptys) :
        (~ptys[p].killed /\ ~ptys[p].exited) =>
            Cardinality({sid \in SessionIds :
                            sessions[sid] # 0 /\ objs[sessions[sid]].ptyProcess = p}) = 1


\* ---------------------------------------------------------------------
\* The shell behind the PTY: bash runs the lines it was written, in order;
\* `ran` counts the entries it has run.  It stays in the workspace root it
\* was spawned in, where `rm <file>` unlinks that file.
\* ---------------------------------------------------------------------
ShellStep(p) ==
    /\ ~ptys[p].killed /\ ~ptys[p].exited
    /\ ptys[p].ran < Len(ptys[p].input)
    /\ LET e == ptys[p].input[ptys[p].ran + 1]
           parts == IF e.kind = "input" THEN Tokens(e.data) ELSE <<>>
       IN disk' = IF Len(parts) = 2 /\ parts[1] = <<"r", "m">>
                  THEN disk \ DiskFile(disk, ptys[p].sid, parts[2])
                  ELSE disk
    /\ ptys' = [ptys EXCEPT ![p].ran = @ + 1]
    /\ UNCHANGED <<proc, workspaceDir, conns, sessions, objs, tasks, inbox, sent>>
    /\ UNCHANGED <<pathVars, storeVars>>

\* one client of s1 under an absolute WORKSPACE_DIR removes f.txt in the
\* shell while re-sync passes run
RmLine == <<"r", "m", " ", "f", ".", "t", "x", "t", "\n">>
RmFile == <<"f", ".", "t", "x", "t">>
InitRm == InitFiles /\ workspaceDir = AbsWorkspaceDir
NextRm ==
    \/ \E c \in ConnIds : Connect(c)
    \/ \E c \in ConnIds, sid \in LifeSessions : sessions[sid] = 0 /\ RecvInit(c, sid)
    \/ \E c \in ConnIds, sid \in LifeSessions : RecvInput(c, sid, RmLine)
    \/ \E t \in tasks : InitList(t)
    \/ \E t \in tasks : \E fn \in t.todo : InitFile(t, fn)
    \/ \E t \in tasks : InitSpawn(t)
    \/ \E t \in tasks : InputPropagate(t)
    \/ \E p \in 1..Len(ptys) : ShellStep(p)
    \/ SyncPassStart
    \/ \E t \in tasks : SyncVisit(t)
    \/ \E t \in tasks : \E fn \in t.todo : SyncRead(t, fn)
    \/ \E t \in tasks : SyncWrite(t)
    \/ \E t \in tasks : SyncPassEnd(t)
SpecRm == InitRm /\ [][NextRm]_vars

\* the shell of a PTY of sid has run a forwarded line `rm f.txt`
ShellRanRm(sid) ==
    \E p \in 1..Len(ptys) : \E i \in 1..ptys[p].ran :
        /\ ptys[p].sid = sid
        /\ ptys[p].input[i].kind = "input" /\ ptys[p].input[i].data = RmLine

\* C37: once the line rm f.txt has been forwarded and run by the shell, the
\* File Record of f.txt is gone and the file is gone from disk, no step puts
\* the file back on disk
C37_DeletedStaysDeleted ==
    [][\A sid \in SessionIds :
          (/\ ShellRanRm(sid)
           /\ MatchingRows(db, sid, RmFile) = {}
           /\ DiskFile(disk, sid, RmFile) = {})
          => DiskFile(disk', sid, RmFile) = {}]_vars


(***************************************************************************)
(* Timers that outlive their session                                       *)
(***************************************************************************)
\* one session under an absolute WORKSPACE_DIR: a touch and a watched line
\* are forwarded, then the session is destroyed by DELETE /sessions/:id or
\* by the close of its socket while the timers are pending
TimerLines == {<<"t", "o", "u", "c", "h", " ", "t", "\n">>, <<"n", "o", "d", "e", " ", "-", "v", "\n">>}
NextTimers ==
    \/ \E c \in ConnIds : Connect(c)
    \/ \E c \in ConnIds, sid \in LifeSessions : sessions[sid] = 0 /\ RecvInit(c, sid)
    \/ \E c \in ConnIds, sid \in LifeSessions, input \in TimerLines : RecvInput(c, sid, input)
    \/ \E t \in tasks : InitList(t)
    \/ \E t \in tasks : \E fn \in t.todo : InitFile(t, fn)
    \/ \E t \in tasks : InitSpawn(t)
    \/ \E t \in tasks : InputSync(t)
    \/ \E t \in tasks : InputAnalysed(t)
    \/ \E t \in tasks : TouchTimer(t)
    \/ \E p \in 1..Len(ptys) : CommandTimeout(p)
    \/ Tick
    \/ \E c \in ConnIds : WsClose(c)
    \/ \E sid \in LifeSessions : DeleteSessionRequest(sid)
    \/ \E t \in tasks : DeleteSessionFinish(t)
SpecTimers == InitRm /\ [][NextTimers]_vars

\* the registry entry of sid is gone and the PTY it had was killed with it
SessionDestroyed(sid) ==
    /\ sessions[sid] = 0
    /\ \E p \in 1..Len(ptys) : ptys[p].sid = sid /\ ptys[p].killed

\* C38: after a session has been destroyed, no timer created for it fires
\* into it: the command timeout does not write Ctrl+C to its old PTY, and
\* the delayed read of a touch creates or changes no File Record of the
\* session
C38_NoTimerAfterDestroy ==
    [][\A sid \in SessionIds :
          SessionDestroyed(sid) =>
              /\ \A p \in 1..Len(ptys) : ptys[p].sid = sid => ~CommandTimeout(p)
              /\ \A t \in tasks :
                    (t.kind = "touch" /\ t.sid = sid /\ tasks' = tasks \ {t})
                        => {r \in db'.files : r.session_id = sid} \subseteq db.files]_vars


\* the registry entry of sid is not ready and no init is at work on it
DeadEntry(sid) ==
    /\ sessions[sid] # 0
    /\ ~objs[sessions[sid]].ptyReady
    /\ \A t \in tasks : ~(t.kind = "init" /\ t.obj = sessions[sid])

\* C39: a failed spawn leaves no dead entry behind: a reconnect for a
\* session whose entry is not ready, and on which no init is at work, takes
\* the init path
C39_ReconnectAfterFailedSpawn ==
    [][\A sid \in SessionIds :
          (/\ DeadEntry(sid)
           /\ Len(inbox') = Len(inbox) + 1
           /\ inbox'[Len(inbox')].type = "reconnect"
           /\ inbox'[Len(inbox')].sid = sid)
              => \E t \in tasks' : t.kind = "init" /\ t.sid = sid /\ t.id = Len(inbox')]_vars


(***************************************************************************)
(* Termination of the global shutdown                                      *)
(***************************************************************************)
\* the termination signal while clients connect, initialise, reconnect and
\* leave. The callbacks of wss.close() and server.close() run when they are
\* due, and a socket the gateway has closed ends; a client that holds an
\* open socket is not obliged to close it
NextExit ==
    \/ \E c \in ConnIds : Connect(c)
    \/ \E c \in ConnIds, sid \in LifeSessions : RecvInit(c, sid)
    \/ \E c \in ConnIds, sid \in LifeSessions : RecvReconnect(c, sid)
    \/ \E t \in tasks : InitList(t)
    \/ \E t \in tasks : \E fn \in t.todo : InitFile(t, fn)
    \/ \E t \in tasks : InitSpawn(t)
    \/ \E c \in ConnIds : WsClose(c)
    \/ Shutdown
    \/ WssClosed
    \/ HttpClosed
FairExit ==
    /\ WF_vars(WssClosed)
    /\ WF_vars(HttpClosed)
    /\ \A c \in ConnIds : WF_vars(conns[c].state = "closing" /\ WsClose(c))
SpecExit == InitLife /\ [][NextExit]_vars /\ FairExit

\* C40: after a termination signal the process eventually exits
C40_ShutdownTerminates == (proc # "running") ~> (proc = "exited")

=============================================================================
